---- MODULE Spec2Model ----
(***************************************************************************)
(* A model of bilibili-follow-manager: the request governor                *)
(* (AntiAntiControl), the transport call and the follow/unfollow           *)
(* operations of BilibiliAPI (src/bilibili_api.py), and the batch          *)
(* workflows of BilibiliManagerGUI (src/gui.py).                           *)
(*                                                                         *)
(* The module holds several specifications over one set of variables:      *)
(*   SpecRetry  the pure retry decision should_retry                       *)
(*   SpecApi    one thread running API operations, with its event log      *)
(*   SpecGovSeq / SpecGovConc   before_request against a clock, called by  *)
(*              one thread / by two threads                                *)
(*   SpecBatch  BilibiliAPI.batch_unfollow_all                             *)
(*   SpecGui    the GUI's main thread, its Tk callback queue and the       *)
(*              worker threads of the three batch workflows                *)
(* A specification leaves the variables of the other parts at their idle   *)
(* values.                                                                 *)
(***************************************************************************)
EXTENDS Integers, Sequences, FiniteSets, TLC

VARIABLES
    sr,        \* SpecRetry: [attempt, code, out] of one should_retry call
    cfg,       \* config.json as loaded: [enabled, max_retries, test_mode]
    op,        \* SpecApi: the API operation in progress ("none" when idle)
    pc,        \* SpecApi: position inside the operation
    attempt,   \* SpecApi: loop variable of the retry loop in progress
    log,       \* SpecApi: events of the operation so far (waits, HTTP requests, sleeps)
    mrResult,  \* SpecApi: how _make_request ended: "none", "returned", "raised", "propagated"
    mrResp,    \* SpecApi: the response _make_request returned
    opResult,  \* SpecApi: what the operation gave its caller
    tally,     \* SpecApi: success_count and failed_count of the loop calling follow_user / unfollow_user
    now,       \* SpecGov*: time.time(), in ticks of 100 ms
    last_request_timestamp,  \* SpecGov*: AntiAntiControl.last_request_timestamp, in ticks
    gth,       \* SpecGov*: per calling thread [pc, wake, calls] inside before_request
    recorded,  \* SpecGov*: the timestamps written so far, in order, with their writer
    govCfg,    \* SpecGov*: [threads, limit, horizon]: the calling threads, calls per thread, last clock value
    bt,        \* SpecBatch: the locals of one batch_unfollow_all call
    api,       \* SpecGui: self.api is not None
    loading,   \* SpecGui: self.loading
    btn,       \* SpecGui: state of fetch_follow_button, batch_unfollow_button, import_follow_button
    afterQ,    \* SpecGui: callbacks handed to root.after(0, ...) and not yet run
    timer,     \* SpecGui: pending root.after(2000, self.fetch_following_async) timers
    wk,        \* SpecGui: the worker threads started so far
    tree,      \* SpecGui: the rows of self.tree
    item_data, \* SpecGui: the keys of self.item_data (each row id stands for its user's record)
    raw_data,  \* SpecGui: the users of self.data_manager.raw_data
    checked,   \* SpecGui: the items of self.checked_items that are checked
    following_list,  \* SpecGui: the users of self.following_list
    file,      \* SpecGui: the users of the persisted following_data.json
    gen,       \* SpecGui: how many times rows were inserted anew into self.tree
    io_error,  \* SpecGui: some write or removal of the data file has raised
    pd,        \* SpecProcess: [raw_list, called, processed]: one call of process_data
    dm,        \* SpecStore*: the DataManager object, and what its last operation returned
    fs,        \* SpecStore*: the data directory: following_data.json and the backup files
    clock,     \* SpecStore*: datetime.now(), in seconds
    env,       \* SpecStore*: [lists, max_saves, horizon]: the lists that are saved, how many
               \* times, and the last clock value
    ss,        \* SpecSearch, SpecHistory: the SearchService object with its history file,
               \* and the arguments and the result of its last search
    ft,        \* SpecInstall: fetch_thread after get_all_following(), the DataManager
               \* fields it assigns, and what a reader has seen of them
    ga         \* SpecFetchAll: the locals of one get_all_following call, the remote
               \* relation it reads and the requests it has issued

retryVars == <<sr>>
apiVars == <<cfg, op, pc, attempt, log, mrResult, mrResp, opResult, tally>>
govVars == <<now, last_request_timestamp, gth, recorded, govCfg>>
batchVars == <<bt>>
guiVars == <<api, loading, btn, afterQ, timer, wk, tree, item_data, raw_data, checked,
             following_list, file, gen, io_error>>
processVars == <<pd>>
storeVars == <<dm, fs, clock, env>>
searchVars == <<ss>>
fetchVars == <<ft>>
pageVars == <<ga>>
vars == <<retryVars, apiVars, govVars, batchVars, guiVars, processVars, storeVars,
          searchVars, fetchVars, pageVars>>

\* What the actions of each part leave alone
notRetry == <<apiVars, govVars, batchVars, guiVars, processVars, storeVars, searchVars,
              fetchVars, pageVars>>
notApi == <<retryVars, govVars, batchVars, guiVars, processVars, storeVars, searchVars,
            fetchVars, pageVars>>
notGov == <<retryVars, apiVars, batchVars, guiVars, processVars, storeVars, searchVars,
            fetchVars, pageVars>>
notBatch == <<retryVars, govVars, guiVars, processVars, storeVars, searchVars, fetchVars,
              pageVars,
              op, pc, attempt, log, mrResult, mrResp, opResult, tally>>
notGui == <<retryVars, apiVars, govVars, batchVars, processVars, storeVars, searchVars,
            fetchVars, pageVars>>
notProcess == <<retryVars, apiVars, govVars, batchVars, guiVars, storeVars, searchVars,
                fetchVars, pageVars>>
notStore == <<retryVars, apiVars, govVars, batchVars, guiVars, processVars, searchVars,
              fetchVars, pageVars>>
notSearch == <<retryVars, apiVars, govVars, batchVars, guiVars, processVars, storeVars,
               fetchVars, pageVars>>
\* The actions of fetch_thread change ft and the data directory
notFetch == <<retryVars, apiVars, govVars, batchVars, guiVars, processVars, searchVars,
              pageVars, dm, clock, env>>
\* The actions of get_all_following change ga
notPage == <<retryVars, apiVars, govVars, batchVars, guiVars, processVars, storeVars,
             searchVars, fetchVars>>

----------------------------------------------------------------------------
(* The values a part's variables keep under the specifications of the     *)
(* other parts                                                             *)

IdleRetry ==
    sr = [attempt |-> 0, code |-> [none |-> TRUE, v |-> 0], out |-> "unset"]

IdleApi ==
    /\ cfg = [enabled |-> TRUE, max_retries |-> 3, test_mode |-> FALSE]
    /\ op = "none"
    /\ pc = "idle"
    /\ attempt = 0
    /\ log = <<>>
    /\ mrResult = "none"
    /\ mrResp = [exc |-> FALSE, status |-> 0, code |-> [none |-> TRUE, v |-> 0]]
    /\ opResult = "none"
    /\ tally = [success |-> 0, failed |-> 0]

IdleGov ==
    /\ now = 0
    /\ last_request_timestamp = 0
    /\ gth = <<>>
    /\ recorded = <<>>
    /\ govCfg = [threads |-> {}, limit |-> 0, horizon |-> 0]

IdleBatch ==
    bt = [pc |-> "idle", list |-> <<>>, max_test_ops |-> 5, confirm |-> "none",
          original_count |-> 0, total |-> 0, idx |-> 0, success |-> 0, failed |-> 0,
          attempted |-> <<>>, result |-> "none"]

IdleGui ==
    /\ api = FALSE
    /\ loading = FALSE
    /\ btn = [fetch |-> "disabled", unfollow |-> "disabled", import |-> "disabled"]
    /\ afterQ = <<>>
    /\ timer = 0
    /\ wk = <<>>
    /\ tree = {}
    /\ item_data = {}
    /\ raw_data = {}
    /\ checked = {}
    /\ following_list = {}
    /\ file = {}
    /\ gen = 0
    /\ io_error = FALSE

\* The snapshot process_data starts from, for an empty list
NoSnapshot ==
    [total_count |-> 0, users |-> <<>>,
     by_name |-> <<>>, by_uid |-> <<>>, by_sign |-> <<>>,
     name_length_stats |-> <<>>, sign_length_stats |-> <<>>]

IdleProcess ==
    pd = [raw_list |-> <<>>, called |-> FALSE, processed |-> NoSnapshot]

\* A JSON text or the value decoded from it: a snapshot object, or one of the
\* other kinds of content
Json(kind, val) == [kind |-> kind, val |-> val]
\* The file does not exist
Missing == Json("missing", NoSnapshot)
\* `{}`: the value of processed_data before any load
EmptyObject == Json("empty_object", NoSnapshot)

IdleStore ==
    /\ dm = [raw_data |-> {}, processed_data |-> EmptyObject, observers |-> <<>>,
             ret |-> "none", last |-> "none", saved |-> <<>>, saves |-> 0,
             delivered |-> <<>>, at_start |-> <<>>, error |-> FALSE]
    /\ fs = [file |-> Missing, backups |-> <<>>]
    /\ clock = 0
    /\ env = [lists |-> {}, max_saves |-> 0, horizon |-> 0]

NoCall == [query |-> <<>>, exact |-> FALSE, page |-> 0, page_size |-> 0]
NoResult ==
    [results |-> <<>>, total |-> 0, page |-> 0, page_size |-> 0, total_pages |-> 0,
     query |-> <<>>]
\* SearchService.__init__ when no history file exists
IdleService ==
    [data |-> <<>>, search_history |-> <<>>,
     history_file |-> [exists |-> FALSE, content |-> <<>>],
     call |-> NoCall,
     result |-> NoResult]
IdleSearch == ss = IdleService

\* DataManager.__init__ when no data file exists: processed_data, raw_data,
\* last_update, update_count
NoMemory ==
    [processed_data |-> EmptyObject, raw_data |-> {}, last_update |-> -1, update_count |-> 0]
\* No fetch_thread has run
IdleThread ==
    [pc |-> "idle", fetches |-> 0, following_list |-> <<>>, built_at |-> 0,
     outcome |-> "none", mem |-> NoMemory, before |-> NoMemory, seen |-> NoMemory,
     events |-> <<>>]
IdleFetch == ft = IdleThread

\* get_all_following has not been called
IdleCall ==
    [pc |-> "idle", enabled |-> TRUE, ps |-> 1, remote |-> <<>>, pn |-> 0,
     all_following |-> <<>>, requested |-> <<>>, answers |-> <<>>, calls |-> 0,
     before |-> [mem |-> NoMemory, file |-> Missing]]
IdlePage == ga = IdleCall

----------------------------------------------------------------------------
(* Bounds of the model *)

\* should_retry is applied to attempts 0..MaxAttempt
MaxAttempt == 5
\* config.json's anti_control.max_retries ranges over 0..MaxCfgRetries
MaxCfgRetries == 3
\* follow_user / unfollow_user calls the counting loop of SpecApi makes
MaxCalls == 2

----------------------------------------------------------------------------
(* AntiAntiControl: constants set by __init__ *)

\* self.max_retries
max_retries == 3

\* An optional error code: Python's None, or an integer.
NoCode == [none |-> TRUE, v |-> 0]
Code(c) == [none |-> FALSE, v |-> c]

\* The integer codes the model feeds to the governor and receives in envelopes:
\* success, the risk-control codes, the 5xx family, already-following (22013),
\* not-following (22015), operation-limited (22016), not-logged-in (-101),
\* and -1, the default of data.get('code', -1).
ErrorCodes == {0, -1, -101, -352, 412, 429, 500, 502, 503, 504, 22013, 22015, 22016}

OptCodes == {NoCode} \cup {Code(c) : c \in ErrorCodes}

\* The list literal of should_retry
RetryableCodes == {-352, 412, 500, 502, 503, 504}

should_retry_off_by_one(a, error_code) ==
    IF a > max_retries THEN FALSE
    ELSE IF (~error_code.none) /\ error_code.v \in RetryableCodes THEN TRUE
    ELSE ~error_code.none

\* AntiAntiControl.should_retry(attempt, error_code)
should_retry(a, error_code) ==
    IF a >= max_retries THEN FALSE
    ELSE IF (~error_code.none) /\ error_code.v \in RetryableCodes THEN TRUE
    ELSE ~error_code.none

\* AntiAntiControl.get_retry_delay(attempt, error_code): which delay is computed.
\* "risk" is get_exponential_backoff(attempt) * 1.5, "generic" the plain backoff.
get_retry_delay_kind(error_code) ==
    IF (~error_code.none) /\ error_code.v \in {-352, 412} THEN "risk" ELSE "generic"

----------------------------------------------------------------------------
(* SpecRetry: should_retry applied to every attempt and code of the bounds *)

InitRetry ==
    /\ IdleProcess
    /\ IdleStore
    /\ IdleSearch
    /\ IdleFetch
    /\ IdlePage
    /\ sr \in [attempt : 0..MaxAttempt, code : OptCodes, out : {"unset"}]
    /\ IdleApi
    /\ IdleGov
    /\ IdleBatch
    /\ IdleGui

ShouldRetryCall ==
    /\ sr.out = "unset"
    /\ sr' = [sr EXCEPT !.out = IF should_retry(sr.attempt, sr.code) THEN "true" ELSE "false"]
    /\ UNCHANGED notRetry

NextRetry == ShouldRetryCall

SpecRetry == InitRetry /\ [][NextRetry]_vars

\* C2: should_retry is false for every code, null included, once attempt >=
\* max_retries, and true at attempt 0 for each code of the retryable set
\* (max_retries being at least 1).
C2_ShouldRetryBoundary ==
    sr.out # "unset" =>
        /\ (sr.attempt >= max_retries => sr.out = "false")
        /\ (/\ sr.attempt = 0
            /\ max_retries >= 1
            /\ ~sr.code.none
            /\ sr.code.v \in {-352, 412, 500, 502, 503, 504}) => sr.out = "true"

\* should_retry(max_retries, 500) has been evaluated
C2_Witness ==
    /\ sr.out = "false"
    /\ sr.attempt = max_retries
    /\ sr.code = Code(500)

\* C3: for attempt < max_retries should_retry is true for every non-null error
\* code, false for a null code and false for the success code 0.
C3_PermissiveDefault ==
    (sr.out # "unset" /\ sr.attempt < max_retries) =>
        (sr.out = "true" <=> ((~sr.code.none) /\ sr.code.v # 0))

----------------------------------------------------------------------------
(* HTTP responses and the event log of an operation *)

Resp(status, c) == [exc |-> FALSE, status |-> status, code |-> c]
\* session.request / session.post raised requests.RequestException
ExcResp == [exc |-> TRUE, status |-> 0, code |-> NoCode]
NoResp == [exc |-> FALSE, status |-> 0, code |-> NoCode]

\* What the remote may answer to a request of _make_request: HTTP 200 with an
\* envelope code, HTTP 412 / 429 / 500 (no envelope is read), or a transport exception.
MakeResponses ==
    {Resp(200, Code(c)) : c \in {0, -352, 412, 22013, -101}}
        \cup {Resp(s, NoCode) : s \in {412, 429, 500}}
        \cup {ExcResp}

\* What the remote may answer to the POST of follow_user / unfollow_user
\* (response.status_code is not read there, only the envelope).
ModifyResponses ==
    {Resp(200, Code(c)) : c \in {0, -352, 22013, 22015, 22016, -101}} \cup {ExcResp}

Ev(e, r, k, n) == [ev |-> e, resp |-> r, kind |-> k, n |-> n]
EvBefore == Ev("before", NoResp, "", 0)          \* anti_control.before_request() completed
EvAfter == Ev("after", NoResp, "", 0)            \* anti_control.after_request() completed
EvHttp(r, n) == Ev("http", r, "", n)             \* one HTTP request issued, answered by r
EvSleep(k, n) == Ev("sleep", NoResp, k, n)       \* time.sleep of a delay of kind k for attempt n

----------------------------------------------------------------------------
(* BilibiliAPI._make_request *)

AttemptRangeOneMore(mr) == 0..(mr + 1)

\* range(max_retries + 1)
AttemptRange(mr) == 0..mr

\* The trailing `if attempt < max_retries: sleep(get_retry_delay(attempt))` of the loop body
FallThrough(mr, a) ==
    IF a < mr THEN <<EvSleep(get_retry_delay_kind(NoCode), a)>> ELSE <<>>

ReturnedCodesWithRiskControl == {0, 22013, -352}

\* The envelope codes whose response _make_request returns:
\* `if code == 0: return response` and `elif code == 22013: return response`
ReturnedCodes == {0, 22013}

\* One iteration of the retry loop for attempt a answered by r:
\* the events it produces and whether it returns the response.
AttemptStep(mr, a, r) ==
    IF r.exc
    THEN \* before_request ran, session.request raised: after_request is skipped
         [events |-> <<EvBefore, EvHttp(r, a)>> \o FallThrough(mr, a),
          returns |-> FALSE]
    ELSE LET head == <<EvBefore, EvHttp(r, a), EvAfter>> IN
         IF r.status = 200
         THEN IF r.code.v \in ReturnedCodes
              THEN [events |-> head, returns |-> TRUE]
              ELSE IF r.code.v \in {-352, 412} /\ should_retry(a + 1, r.code)
              THEN [events |-> head \o <<EvSleep(get_retry_delay_kind(r.code), a)>>,
                    returns |-> FALSE]
              ELSE [events |-> head \o FallThrough(mr, a), returns |-> FALSE]
         ELSE IF r.status \in {412, 429}
         THEN [events |-> head \o <<EvSleep("backoff2", a)>>, returns |-> FALSE]
         ELSE [events |-> head \o FallThrough(mr, a), returns |-> FALSE]

\* Operations that go through _make_request
TransportOps == {"get_following_list", "get_user_info"}

\* get_following_list / get_user_info are called: up to the call of _make_request.
\* get_user_info runs its own before_request first when anti-throttling is enabled.
StartTransportOp(o) ==
    /\ pc = "idle"
    /\ o \in TransportOps
    /\ op' = o
    /\ pc' = "mr"
    /\ attempt' = 0
    /\ log' = IF o = "get_user_info" /\ cfg.enabled THEN <<EvBefore>> ELSE <<>>
    /\ mrResult' = "none"
    /\ mrResp' = NoResp
    /\ opResult' = "none"
    /\ UNCHANGED <<cfg, tally, notApi>>

\* anti_control.enabled is false: one plain session.request, returned as it is
MakeRequestDisabled ==
    /\ pc = "mr"
    /\ ~cfg.enabled
    /\ \E r \in MakeResponses :
        /\ log' = Append(log, EvHttp(r, 0))
        /\ mrResult' = IF r.exc THEN "propagated" ELSE "returned"
        /\ mrResp' = r
    /\ pc' = "mr_done"
    /\ UNCHANGED <<cfg, tally, op, attempt, opResult, notApi>>

\* One iteration of `for attempt in range(max_retries + 1)`
MakeRequestAttempt ==
    /\ pc = "mr"
    /\ cfg.enabled
    /\ attempt \in AttemptRange(cfg.max_retries)
    /\ \E r \in MakeResponses :
        LET st == AttemptStep(cfg.max_retries, attempt, r) IN
        /\ log' = log \o st.events
        /\ IF st.returns
           THEN /\ mrResult' = "returned"
                /\ mrResp' = r
                /\ pc' = "mr_done"
                /\ UNCHANGED attempt
           ELSE /\ attempt' = attempt + 1
                /\ UNCHANGED <<mrResult, mrResp, pc>>
    /\ UNCHANGED <<cfg, tally, op, opResult, notApi>>

\* The loop is over: raise Exception("请求失败，已重试 N 次")
MakeRequestExhausted ==
    /\ pc = "mr"
    /\ cfg.enabled
    /\ attempt \notin AttemptRange(cfg.max_retries)
    /\ mrResult' = "raised"
    /\ pc' = "mr_done"
    /\ UNCHANGED <<cfg, tally, op, attempt, log, mrResp, opResult, notApi>>

\* The caller's code after _make_request.
\* get_following_list: raise unless the envelope code is 0, else return data['data'].
\* get_user_info: after_request when enabled, then data or, on any exception, {}.
FinishTransportOp ==
    /\ pc = "mr_done"
    /\ op \in TransportOps
    /\ IF mrResult = "returned"
       THEN /\ log' = IF op = "get_user_info" /\ cfg.enabled
                      THEN Append(log, EvAfter) ELSE log
            /\ opResult' =
                 IF (~mrResp.code.none) /\ mrResp.code.v = 0 THEN "data"
                 ELSE IF op = "get_user_info" THEN "empty" ELSE "raised"
       ELSE /\ log' = log
            /\ opResult' = IF op = "get_user_info" THEN "empty" ELSE "raised"
    /\ pc' = "done"
    /\ UNCHANGED <<cfg, tally, op, attempt, mrResult, mrResp, notApi>>

\* The loop that called follow_user / unfollow_user counts the answer:
\* `if self.unfollow_user(fid): success_count += 1 else: failed_count += 1`
CountResult(o, result) ==
    IF o \notin {"follow_user", "unfollow_user"} THEN tally
    ELSE IF result = "true" THEN [tally EXCEPT !.success = @ + 1]
    ELSE [tally EXCEPT !.failed = @ + 1]

\* The operation has returned to its caller and its locals are gone; the caller
\* has counted the answer and the thread is free for the next operation
ReturnToCaller ==
    /\ pc = "done"
    /\ pc' = "idle"
    /\ op' = "none"
    /\ attempt' = 0
    /\ log' = <<>>
    /\ mrResult' = "none"
    /\ mrResp' = NoResp
    /\ opResult' = "none"
    /\ tally' = CountResult(op, opResult)
    /\ UNCHANGED <<cfg, notApi>>

----------------------------------------------------------------------------
(* BilibiliAPI.follow_user and BilibiliAPI.unfollow_user *)

\* The envelope codes follow_user returns True for
FollowSuccessCodes == {0, 22013}
UnfollowSuccessCodesWithoutNotFollowing == {0}

\* The envelope codes unfollow_user returns True for
UnfollowSuccessCodes == {0, 22015}
UnfollowRiskCodesAndNotLoggedIn == {-352, 22016, -101}

\* The envelope codes that send unfollow_user into its retry loop
UnfollowRiskCodes == {-352, 22016}

GovernedPostNoPreWait(r) ==
    IF r.exc THEN <<EvHttp(r, 0)>> ELSE <<EvHttp(r, 0), EvAfter>>

\* before_request(); session.post(...); after_request() as follow_user and
\* unfollow_user write it: the governor is called whatever anti_control.enabled says.
\* A raised post skips after_request.
GovernedPost(r) ==
    IF r.exc THEN <<EvBefore, EvHttp(r, 0)>> ELSE <<EvBefore, EvHttp(r, 0), EvAfter>>

\* follow_user(fid), whole: the test-mode shortcut, or one governed POST
FollowUser ==
    /\ pc = "idle"
    /\ tally.success + tally.failed < MaxCalls
    /\ op' = "follow_user"
    /\ attempt' = 0
    /\ mrResult' = "none"
    /\ IF cfg.test_mode
       THEN /\ log' = <<EvSleep("test_mode", 0)>>
            /\ mrResp' = NoResp
            /\ opResult' = "true"
       ELSE \E r \in ModifyResponses :
            /\ log' = GovernedPost(r)
            /\ mrResp' = r
            /\ opResult' = IF (~r.exc) /\ r.code.v \in FollowSuccessCodes
                           THEN "true" ELSE "false"
    /\ pc' = "done"
    /\ UNCHANGED <<cfg, tally, notApi>>

\* unfollow_user(fid) up to its first answer
UnfollowFirst ==
    /\ pc = "idle"
    /\ tally.success + tally.failed < MaxCalls
    /\ op' = "unfollow_user"
    /\ attempt' = 0
    /\ mrResult' = "none"
    /\ IF cfg.test_mode
       THEN /\ log' = <<EvSleep("test_mode", 0)>>
            /\ mrResp' = NoResp
            /\ opResult' = "true"
            /\ pc' = "done"
       ELSE \E r \in ModifyResponses :
            /\ log' = GovernedPost(r)
            /\ mrResp' = r
            /\ IF r.exc
               THEN opResult' = "false" /\ pc' = "done"
               ELSE IF r.code.v \in UnfollowSuccessCodes
               THEN opResult' = "true" /\ pc' = "done"
               ELSE IF r.code.v \in UnfollowRiskCodes
               THEN opResult' = "none" /\ pc' = "unf_retry"
               ELSE opResult' = "false" /\ pc' = "done"
    /\ UNCHANGED <<cfg, tally, notApi>>

\* One iteration of `for attempt in range(self.anti_control.max_retries)`:
\* sleep get_retry_delay(attempt + 1, code), then a governed POST.
\* An exception leaves the loop for the outer except clause (return False).
UnfollowRetry ==
    /\ pc = "unf_retry"
    /\ attempt \in 0..(max_retries - 1)
    /\ \E r \in ModifyResponses :
        /\ log' = log \o <<EvSleep(get_retry_delay_kind(mrResp.code), attempt + 1)>>
                      \o GovernedPost(r)
        /\ mrResp' = r
        /\ IF r.exc
           THEN opResult' = "false" /\ pc' = "done" /\ UNCHANGED attempt
           ELSE IF r.code.v \in UnfollowSuccessCodes
           THEN opResult' = "true" /\ pc' = "done" /\ UNCHANGED attempt
           ELSE opResult' = "none" /\ pc' = "unf_retry" /\ attempt' = attempt + 1
    /\ UNCHANGED <<cfg, tally, op, mrResult, notApi>>

\* The retry loop is over: log "重试次数耗尽", return False
UnfollowExhausted ==
    /\ pc = "unf_retry"
    /\ attempt \notin 0..(max_retries - 1)
    /\ opResult' = "false"
    /\ pc' = "done"
    /\ UNCHANGED <<cfg, tally, op, attempt, log, mrResult, mrResp, notApi>>

----------------------------------------------------------------------------
(* SpecApi: one thread running API operations one after another, under    *)
(* every configuration of the bounds                                      *)

InitApi ==
    /\ IdleProcess
    /\ IdleStore
    /\ IdleSearch
    /\ IdleFetch
    /\ IdlePage
    /\ IdleRetry
    /\ IdleGov
    /\ IdleBatch
    /\ IdleGui
    /\ cfg \in [enabled : BOOLEAN, max_retries : 0..MaxCfgRetries, test_mode : BOOLEAN]
    /\ op = "none"
    /\ pc = "idle"
    /\ attempt = 0
    /\ log = <<>>
    /\ mrResult = "none"
    /\ mrResp = NoResp
    /\ opResult = "none"
    /\ tally = [success |-> 0, failed |-> 0]

NextApi ==
    \/ \E o \in TransportOps : StartTransportOp(o)
    \/ MakeRequestDisabled
    \/ MakeRequestAttempt
    \/ MakeRequestExhausted
    \/ FinishTransportOp
    \/ FollowUser
    \/ UnfollowFirst
    \/ UnfollowRetry
    \/ UnfollowExhausted
    \/ ReturnToCaller

SpecApi == InitApi /\ [][NextApi]_vars

\* Events of a log
HttpEvents(l) == {i \in 1..Len(l) : l[i].ev = "http"}
SleepEvents(l) == {i \in 1..Len(l) : l[i].ev = "sleep"}
GovernorEvents(l) == {i \in 1..Len(l) : l[i].ev \in {"before", "after"}}

\* The HTTP requests of the log were all answered HTTP 200 with envelope code c
AllAnswered(l, c) == \A i \in HttpEvents(l) : l[i].resp = Resp(200, Code(c))

\* C1: with anti-throttling enabled, a _make_request call issues at most
\* max_retries + 1 HTTP requests whatever the answers are; answered -352 every
\* time, it ends having issued exactly max_retries + 1 and raises the terminal failure.
C1_RequestsBounded ==
    (op \in TransportOps /\ cfg.enabled) =>
        /\ Cardinality(HttpEvents(log)) <= cfg.max_retries + 1
        /\ (pc = "mr_done" /\ AllAnswered(log, -352)) =>
               /\ Cardinality(HttpEvents(log)) = cfg.max_retries + 1
               /\ mrResult = "raised"

\* A call under max_retries = 3 that was answered -352 four times and raised
C1_Witness ==
    /\ op = "get_following_list" /\ cfg.enabled /\ cfg.max_retries = 3
    /\ pc = "mr_done" /\ mrResult = "raised"
    /\ AllAnswered(log, -352)
    /\ Cardinality(HttpEvents(log)) = 4

\* HTTP 200 with an envelope code that is neither success, nor already-in-state,
\* nor a risk-control code
IsPermanentReject(r) ==
    /\ ~r.exc
    /\ r.status = 200
    /\ r.code.v \notin {0, 22013, 22015, -352, 412}

\* C4: an attempt of _make_request answered by a permanent application rejection
\* is the last one of the call: no retry delay is slept and no further HTTP
\* request is issued after it.
C4_PermanentRejectEndsCall ==
    (op \in TransportOps /\ cfg.enabled) =>
        \A i \in HttpEvents(log) :
            IsPermanentReject(log[i].resp) =>
                \A j \in (i + 1)..Len(log) : log[j].ev \notin {"sleep", "http"}

\* C8: with anti-throttling enabled, every HTTP request of an operation comes
\* after a completed before_request with no other HTTP request in between.
C8_PreWaitBeforeEveryRequest ==
    cfg.enabled =>
        \A i \in HttpEvents(log) :
            \E j \in 1..(i - 1) :
                /\ log[j].ev = "before"
                /\ \A k \in (j + 1)..(i - 1) : log[k].ev # "http"

\* unfollow_user has issued its first request and at least one retry
C8_Witness ==
    /\ cfg.enabled /\ op = "unfollow_user" /\ pc = "done"
    /\ Cardinality(HttpEvents(log)) >= 2

\* The operation was answered, last, HTTP 200 with envelope code c
LastAnswered(c) == (~cfg.test_mode) /\ mrResp = Resp(200, Code(c))

\* follow_user answered 'already following', or unfollow_user answered 'not following'
AlreadyInDesiredState ==
    /\ pc = "done"
    /\ \/ op = "follow_user" /\ LastAnswered(22013)
       \/ op = "unfollow_user" /\ LastAnswered(22015)

\* C12: a follow answered 22013 and an unfollow answered 22015, on the first
\* attempt or on a retry, return True to the caller, and the caller's loop adds
\* one to its success tally and nothing to failed.
C12_AlreadyInStateCountsAsSuccess ==
    /\ [](AlreadyInDesiredState => opResult = "true")
    /\ [][(AlreadyInDesiredState /\ pc' = "idle") =>
             tally' = [tally EXCEPT !.success = @ + 1]]_vars

\* unfollow_user was answered 'not following' on a retry, after a risk-control answer
C12_Witness ==
    /\ AlreadyInDesiredState
    /\ op = "unfollow_user"
    /\ Cardinality(HttpEvents(log)) >= 2
    /\ tally.success = 1

\* C9: with anti-throttling disabled no operation executes before_request or
\* after_request.
C9_DisabledMeansNoGovernorWait ==
    (~cfg.enabled) => GovernorEvents(log) = {}

----------------------------------------------------------------------------
(* AntiAntiControl.before_request against the clock.  Time is counted in   *)
(* ticks of 100 ms.  time.sleep(d) returns no earlier than d after it was  *)
(* called, and a thread may be delayed for any time between two steps.     *)
(* A `with self.request_interval_lock` block is one atomic step.           *)

\* The clock of SpecGovSeq stops at MaxTime
MaxTime == 62
\* The clock of SpecGovConc stops at MaxConcTime
MaxConcTime == 45
\* Calls of before_request by the single caller of SpecGovSeq
MaxSeqCalls == 3
\* Calls of before_request by each of the two callers of SpecGovConc
MaxConcCalls == 1

Ticks(ms) == ms \div 100

\* self.min_delay_ms, self.max_delay_ms
min_delay_ms == 1000
max_delay_ms == 2000

\* get_random_delay(): random.uniform(min_delay_ms / 1000, max_delay_ms / 1000)
RandomDelays == Ticks(min_delay_ms)..Ticks(max_delay_ms)
\* random.uniform(0, 0.3) of check_request_interval
IntervalJitters == 0..Ticks(300)

WakeTimeNoSleep(t, d) == t

\* time.sleep(d) called at t: the earliest time it returns
WakeTime(t, d) == t + d

\* check_request_interval(): the waits it may return at time t
CheckRequestInterval(t) ==
    LET min_interval == Ticks(min_delay_ms)
        elapsed == t - last_request_timestamp
    IN  IF elapsed < min_interval
        THEN {min_interval - elapsed + j : j \in IntervalJitters}
        ELSE {0}

\* before_request, lines 81-83: the interval check (under the lock) and the
\* start of the sleep for the wait it returned
GovCheck(t) ==
    /\ t \in govCfg.threads
    /\ gth[t].pc = "idle"
    /\ gth[t].calls < govCfg.limit
    /\ \E w \in CheckRequestInterval(now) :
        gth' = [gth EXCEPT ![t].pc = "waiting", ![t].wake = WakeTime(now, w)]
    /\ UNCHANGED <<now, last_request_timestamp, recorded, govCfg, notGov>>

\* before_request, lines 85-86: the wait is over, sleep a random delay
GovDelay(t) ==
    /\ t \in govCfg.threads
    /\ gth[t].pc = "waiting"
    /\ now >= gth[t].wake
    /\ \E d \in RandomDelays :
        gth' = [gth EXCEPT ![t].pc = "delaying", ![t].wake = WakeTime(now, d)]
    /\ UNCHANGED <<now, last_request_timestamp, recorded, govCfg, notGov>>

\* before_request, lines 88-89: the delay is over, write the timestamp (under the lock)
GovRecord(t) ==
    /\ t \in govCfg.threads
    /\ gth[t].pc = "delaying"
    /\ now >= gth[t].wake
    /\ last_request_timestamp' = now
    /\ recorded' = Append(recorded, [at |-> now, by |-> t])
    /\ gth' = [gth EXCEPT ![t].pc = "idle", ![t].calls = @ + 1]
    /\ UNCHANGED <<now, govCfg, notGov>>

\* Time passes
Tick ==
    /\ govCfg.threads # {}
    /\ now < govCfg.horizon
    /\ now' = now + 1
    /\ UNCHANGED <<last_request_timestamp, gth, recorded, govCfg, notGov>>

\* __init__: last_request_timestamp = 0, and the first call comes when the
\* clock is at least a minimum interval past 0
InitGov(threads, limit, horizon) ==
    /\ IdleProcess
    /\ IdleStore
    /\ IdleSearch
    /\ IdleFetch
    /\ IdlePage
    /\ IdleRetry
    /\ IdleApi
    /\ IdleBatch
    /\ IdleGui
    /\ now = Ticks(min_delay_ms)
    /\ last_request_timestamp = 0
    /\ govCfg = [threads |-> threads, limit |-> limit, horizon |-> horizon]
    /\ gth = [t \in threads |-> [pc |-> "idle", wake |-> 0, calls |-> 0]]
    /\ recorded = <<>>

NextGov ==
    \/ \E t \in govCfg.threads : GovCheck(t)
    \/ \E t \in govCfg.threads : GovDelay(t)
    \/ \E t \in govCfg.threads : GovRecord(t)
    \/ Tick

\* One thread calling before_request again and again
InitGovSeq == InitGov({1}, MaxSeqCalls, MaxTime)
SpecGovSeq == InitGovSeq /\ [][NextGov]_vars

\* Two threads calling before_request on the same instance
InitGovConc == InitGov({1, 2}, MaxConcCalls, MaxConcTime)
SpecGovConc == InitGovConc /\ [][NextGov]_vars

\* C6: for before_request calls made one after another on one Governor, each
\* recorded timestamp is at least the minimum interval later than the one
\* recorded before it.
C6_SequentialTimestampsSpaced ==
    \A i \in 2..Len(recorded) :
        recorded[i].at - recorded[i - 1].at >= Ticks(min_delay_ms)

\* Three calls in a row by the one caller have recorded their timestamps
C6_Witness ==
    /\ Len(recorded) = 3
    /\ gth[1].calls = 3

\* C7: when two threads call before_request concurrently on one Governor, the
\* timestamps they record differ by at least the minimum interval.
C7_ConcurrentTimestampsSpaced ==
    \A i, j \in 1..Len(recorded) :
        (i < j /\ recorded[i].by # recorded[j].by) =>
            recorded[j].at - recorded[i].at >= Ticks(min_delay_ms)

----------------------------------------------------------------------------
(* BilibiliAPI.batch_unfollow_all *)

\* Length of the list get_all_following returns
MaxBatchItems == 3

\* A followed-user record of the remote list: with its 'mid' and 'uname' keys,
\* or lacking 'mid'
UserShapes == {"ok", "no_mid"}

SeqsUpTo(S, n) == UNION {[1..k -> S] : k \in 0..n}

\* The values of settings.max_test_operations the model runs under (5 is the
\* default of the .get)
TestOperationLimits == {1, 2, 5}

Min(a, b) == IF a < b THEN a ELSE b

\* `for i, user in enumerate(all_following, 1)`: the loop goes on while idx <= total
LoopGoesOn(idx, total) == idx <= total

InitBatch ==
    /\ IdleProcess
    /\ IdleStore
    /\ IdleSearch
    /\ IdleFetch
    /\ IdlePage
    /\ IdleRetry
    /\ IdleGov
    /\ IdleGui
    /\ op = "none"
    /\ pc = "idle"
    /\ attempt = 0
    /\ log = <<>>
    /\ mrResult = "none"
    /\ mrResp = NoResp
    /\ opResult = "none"
    /\ tally = [success |-> 0, failed |-> 0]
    /\ cfg \in [enabled : {TRUE}, max_retries : {3}, test_mode : BOOLEAN]
    /\ \E m \in TestOperationLimits, c \in {"none", "accept", "decline"} :
        bt = [pc |-> "start", list |-> <<>>, max_test_ops |-> m, confirm |-> c,
              original_count |-> 0, total |-> 0, idx |-> 0, success |-> 0, failed |-> 0,
              attempted |-> <<>>, result |-> "none"]

TestModeTotalUncut(total_count, max_test_ops) == total_count

\* `total_count = min(total_count, max_test_ops)`
TestModeTotal(total_count, max_test_ops) == Min(total_count, max_test_ops)

\* Lines 459-472: get_all_following(), the empty-list return, the test-mode cut
BatchFetch ==
    /\ bt.pc = "start"
    /\ \E l \in SeqsUpTo(UserShapes, MaxBatchItems) :
        IF l = <<>>
        THEN bt' = [bt EXCEPT !.pc = "done", !.result = "tally"]
        ELSE LET n == IF cfg.test_mode THEN TestModeTotal(Len(l), bt.max_test_ops)
                       ELSE Len(l) IN
             bt' = [bt EXCEPT !.pc = "confirm",
                              !.list = SubSeq(l, 1, n),
                              !.original_count = Len(l),
                              !.total = n,
                              !.attempted = [i \in 1..n |-> 0]]
    /\ UNCHANGED <<cfg, notBatch>>

\* Lines 474-481: the confirmation callback, when there is one
BatchConfirm ==
    /\ bt.pc = "confirm"
    /\ IF bt.confirm = "decline"
       THEN bt' = [bt EXCEPT !.pc = "done", !.result = "cancelled"]
       ELSE bt' = [bt EXCEPT !.pc = "loop", !.idx = 1]
    /\ UNCHANGED <<cfg, notBatch>>

\* Lines 483-501: one item of the loop.  user['mid'] raises KeyError for a record
\* without that key, and nothing in batch_unfollow_all catches it; otherwise
\* unfollow_user(fid) answers True or False (it catches its own exceptions),
\* and True in test mode.
BatchItem ==
    /\ bt.pc = "loop"
    /\ LoopGoesOn(bt.idx, bt.total)
    /\ IF bt.list[bt.idx] = "no_mid"
       THEN bt' = [bt EXCEPT !.pc = "done", !.result = "raised"]
       ELSE \E ok \in (IF cfg.test_mode THEN {TRUE} ELSE BOOLEAN) :
            bt' = [bt EXCEPT !.attempted[bt.idx] = @ + 1,
                             !.success = IF ok THEN @ + 1 ELSE @,
                             !.failed = IF ok THEN @ ELSE @ + 1,
                             !.idx = @ + 1]
    /\ UNCHANGED <<cfg, notBatch>>

\* Lines 503-511: the loop is over, return the tally
BatchFinish ==
    /\ bt.pc = "loop"
    /\ ~LoopGoesOn(bt.idx, bt.total)
    /\ bt' = [bt EXCEPT !.pc = "done", !.result = "tally"]
    /\ UNCHANGED <<cfg, notBatch>>

NextBatch ==
    \/ BatchFetch
    \/ BatchConfirm
    \/ BatchItem
    \/ BatchFinish

SpecBatch == InitBatch /\ [][NextBatch]_vars

\* C10: a batch run whose item loop has started attempts every item exactly once,
\* whichever earlier items failed or raised, and ends reporting a tally with
\* success + failed = total.
C10_EveryItemAttemptedAndTallied ==
    (bt.pc = "done" /\ bt.idx >= 1) =>
        /\ \A i \in 1..bt.total : bt.attempted[i] = 1
        /\ bt.result = "tally"
        /\ bt.success + bt.failed = bt.total

----------------------------------------------------------------------------
(* BilibiliManagerGUI: the main thread (button commands, root.after         *)
(* callbacks), and the worker threads of fetch_following_async,             *)
(* batch_unfollow and start_batch_follow.  The main thread runs one         *)
(* callback at a time; a worker step is one access to the shared state or   *)
(* one API call.  Callbacks that only write the status bar, the progress    *)
(* bar or a message box are left out of afterQ.                             *)

\* Rows the list may hold
MaxItems == 2
\* Worker threads started in one run
MaxWorkers == 2
\* Pages one get_all_following call requests
MaxPages == 2
\* Searches and cleared searches in one run of SpecGuiSearch
MaxViews == 2
\* Batch unfollows started in one run of SpecGuiSearch
MaxBatches == 1

Ids == 1..MaxItems

\* tree.insert gives every new row a fresh id: the row of user u made by the
\* g-th filling of the tree
Item(u, g) == u + g * MaxItems
ItemUser(i) == ((i - 1) % MaxItems) + 1
Items(S, g) == {Item(u, g) : u \in S}
Users(I) == {ItemUser(i) : i \in I}

\* What unfollow_thread finds in the UID column of a row it reads: an integer, the
\* empty string, or text int() rejects
UidKinds == {"valid", "empty", "bad"}

\* The items of S in list order
SortedSeq(S) ==
    CHOOSE q \in [1..Cardinality(S) -> S] :
        \A i, j \in 1..Cardinality(S) : i < j => q[i] < q[j]

\* A thread that has ended: of its locals only what it reported is kept (the
\* tally, and of unfollow_thread the rows whose unfollow succeeded)
Ended(w, how) ==
    [kind |-> w.kind, pc |-> how, items |-> <<>>, idx |-> Len(w.items) + 1,
     success |-> w.success, failed |-> w.failed, removed |-> w.removed,
     http |-> w.http, pages |-> 0, got |-> FALSE, before |-> w.before]

\* before: the persisted users when batch_unfollow started the thread
NewWorker(kind, items) ==
    [kind |-> kind, pc |-> IF kind = "fetch" THEN "check" ELSE "start",
     items |-> items, idx |-> 0, success |-> 0, failed |-> 0, removed |-> {},
     http |-> FALSE, pages |-> 0, got |-> FALSE,
     before |-> IF kind = "unfollow" THEN file ELSE {}]

Cb(name, arg) == [cb |-> name, arg |-> arg]

AllButtons(st) == [fetch |-> st, unfollow |-> st, import |-> st]

\* __init__: DataManager loads the persisted file; check_config leaves the buttons
\* enabled when logged in, disabled when logged out or expired; auto_import_data
\* then shows the local data, if any, through on_following_data_updated, whose
\* update_following_list enables the fetch button
InitGui ==
    /\ IdleProcess
    /\ IdleStore
    /\ IdleSearch
    /\ IdleFetch
    /\ IdlePage
    /\ IdleRetry
    /\ IdleApi
    /\ IdleGov
    /\ IdleBatch
    /\ api \in BOOLEAN
    /\ loading = FALSE
    /\ file \in SUBSET Ids
    /\ raw_data = file
    /\ following_list = raw_data
    /\ gen = 0
    /\ tree = Items(raw_data, 0)
    /\ item_data = tree
    /\ \E logged_in \in BOOLEAN :
        /\ logged_in => api
        /\ btn = [AllButtons(IF logged_in THEN "normal" ELSE "disabled")
                    EXCEPT !.fetch = IF raw_data # {} THEN "normal" ELSE @]
    /\ afterQ = <<>>
    /\ timer = 0
    /\ wk = <<>>
    /\ checked = {}
    /\ io_error = FALSE

(* ---- the main thread ---- *)

\* threading.Thread(target=...).start()
Spawn(kind, items) ==
    /\ Len(wk) < MaxWorkers
    /\ wk' = Append(wk, NewWorker(kind, items))

\* fetch_follow_button is clicked: fetch_following_async starts fetch_thread
ClickFetch ==
    /\ btn.fetch = "normal"
    /\ Spawn("fetch", <<>>)
    /\ UNCHANGED <<api, loading, btn, afterQ, timer, tree, item_data, raw_data, checked,
                   following_list, file, gen, io_error, notGui>>

\* A root.after(2000, self.fetch_following_async) timer fires
TimerFetch ==
    /\ timer > 0
    /\ timer' = timer - 1
    /\ Spawn("fetch", <<>>)
    /\ UNCHANGED <<api, loading, btn, afterQ, tree, item_data, raw_data, checked,
                   following_list, file, gen, io_error, notGui>>

\* on_tree_click / toggle_check on a row
ToggleCheck(i) ==
    /\ i \in tree
    /\ checked' = IF i \in checked THEN checked \ {i} ELSE checked \cup {i}
    /\ UNCHANGED <<api, loading, btn, afterQ, timer, wk, tree, item_data, raw_data,
                   following_list, file, gen, io_error, notGui>>

\* update_following_list(list): the rows are deleted, checked_items and item_data
\* reset, one new row inserted per user, the fetch button enabled
ShowList(list) ==
    /\ following_list' = list
    /\ gen' = IF list = {} THEN gen ELSE gen + 1
    /\ tree' = Items(list, gen')
    /\ item_data' = tree'
    /\ checked' = {}
    /\ btn' = [btn EXCEPT !.fetch = "normal"]

\* perform_search with a query that matches `results`, then update_search_results:
\* the rows are deleted and one new row inserted per result; checked_items and
\* item_data get the new rows' entries and keep the entries they had
PerformSearch(results) ==
    /\ gen < MaxViews
    /\ results \subseteq following_list
    /\ gen' = IF results = {} THEN gen ELSE gen + 1
    /\ tree' = Items(results, gen')
    /\ item_data' = item_data \cup tree'
    /\ UNCHANGED <<api, loading, btn, afterQ, timer, wk, raw_data, checked,
                   following_list, file, io_error, notGui>>

\* clear_search: update_following_list(self.following_list)
ClearSearch ==
    /\ gen < MaxViews
    /\ ShowList(following_list)
    /\ UNCHANGED <<api, loading, afterQ, timer, wk, raw_data, file, io_error, notGui>>

\* batch_unfollow_button is clicked, some item is checked and the question is
\* answered yes: batch_unfollow starts unfollow_thread on the checked items
ClickBatchUnfollow ==
    /\ btn.unfollow = "normal"
    /\ checked # {}
    /\ Spawn("unfollow", SortedSeq(checked))
    /\ UNCHANGED <<api, loading, btn, afterQ, timer, tree, item_data, raw_data, checked,
                   following_list, file, gen, io_error, notGui>>

\* import_follow_button is clicked, a file is chosen, n users are selected and
\* confirmed (import_and_follow -> confirm_import_selection), then
\* start_batch_follow: returns at once without an API object, else starts
\* follow_thread.  The selection window grabs the input while it is open.
ImportAndFollow(n) ==
    /\ btn.import = "normal"
    /\ api
    /\ Spawn("follow", [i \in 1..n |-> i])
    /\ UNCHANGED <<api, loading, btn, afterQ, timer, tree, item_data, raw_data, checked,
                   following_list, file, gen, io_error, notGui>>

\* logout, confirmed: the API object is dropped, the buttons are disabled and the
\* rows deleted (checked_items and item_data are not touched)
Logout ==
    /\ api
    /\ api' = FALSE
    /\ btn' = AllButtons("disabled")
    /\ tree' = {}
    /\ following_list' = {}
    /\ UNCHANGED <<loading, afterQ, timer, wk, item_data, raw_data, checked,
                   file, gen, io_error, notGui>>

\* A callback that sets one button's state
ButtonCallback(c) ==
    /\ btn' =
        IF c.cb = "disable_fetch" THEN [btn EXCEPT !.fetch = "disabled"]
        ELSE IF c.cb \in {"fetch_success", "fetch_failed", "fetch_completed"}
             THEN [btn EXCEPT !.fetch = "normal"]
        ELSE IF c.cb = "disable_unfollow" THEN [btn EXCEPT !.unfollow = "disabled"]
        ELSE IF c.cb = "enable_unfollow" THEN [btn EXCEPT !.unfollow = "normal"]
        ELSE IF c.cb = "disable_import" THEN [btn EXCEPT !.import = "disabled"]
        ELSE [btn EXCEPT !.import = "normal"]
    /\ afterQ' = Tail(afterQ)
    /\ UNCHANGED <<tree, item_data, checked, raw_data, following_list, file, gen, io_error>>

\* tree.delete(i), checked_items.pop(i, None), item_data.pop(i, None) for the
\* removed rows
DeleteItems(c) ==
    /\ tree' = tree \ c.arg
    /\ item_data' = item_data \ c.arg
    /\ checked' = checked \ c.arg
    /\ afterQ' = Tail(afterQ)
    /\ UNCHANGED <<btn, raw_data, following_list, file, gen, io_error>>

\* save_remaining_users(remaining_users): save_following_list writes the file
\* (its result is not looked at), raw_data is replaced
SaveRemainingUsers(c) ==
    /\ raw_data' = c.arg
    /\ \E written \in BOOLEAN :
        /\ file' = IF written THEN c.arg ELSE file
        /\ io_error' = (io_error \/ ~written)
    /\ afterQ' = Tail(afterQ)
    /\ UNCHANGED <<btn, tree, item_data, checked, following_list, gen>>

\* data_manager.clear_data(): the memory is emptied and the file removed, then
\* 'data_cleared' is notified (on_data_changed answers with
\* root.after(0, on_data_cleared), which empties the list) unless removing
\* the file raised
ClearData(c) ==
    /\ raw_data' = {}
    /\ \E removed_ok \in BOOLEAN :
        /\ file' = IF removed_ok THEN {} ELSE file
        /\ io_error' = (io_error \/ ~removed_ok)
        /\ afterQ' = IF removed_ok
                     THEN Append(Tail(afterQ), Cb("update_following_list", {}))
                     ELSE Tail(afterQ)
    /\ UNCHANGED <<btn, tree, item_data, checked, following_list, gen>>

\* The main loop runs the oldest root.after(0, ...) callback
RunAfter ==
    /\ afterQ # <<>>
    /\ LET c == Head(afterQ) IN
       IF c.cb = "delete_items" THEN DeleteItems(c)
       ELSE IF c.cb = "save_remaining_users" THEN SaveRemainingUsers(c)
       ELSE IF c.cb = "clear_data" THEN ClearData(c)
       ELSE IF c.cb \in {"on_following_data_updated", "update_following_list"}
            THEN /\ ShowList(IF c.cb = "update_following_list" THEN c.arg ELSE raw_data)
                 /\ afterQ' = Tail(afterQ)
                 /\ UNCHANGED <<raw_data, file, io_error>>
       ELSE ButtonCallback(c)
    /\ UNCHANGED <<api, loading, timer, wk, notGui>>

(* ---- fetch_thread ---- *)

IsWorker(w, kind, at) ==
    /\ w \in 1..Len(wk)
    /\ wk[w].kind = kind
    /\ wk[w].pc = at

\* `if self.loading:` -- the busy check; a busy worker warns and returns
FetchCheck(w) ==
    /\ IsWorker(w, "fetch", "check")
    /\ wk' = [wk EXCEPT ![w] = IF loading THEN Ended(@, "rejected")
                                ELSE [@ EXCEPT !.pc = "set_loading"]]
    /\ UNCHANGED <<api, loading, btn, afterQ, timer, tree, item_data, raw_data, checked,
                   following_list, file, gen, io_error, notGui>>

\* `self.loading = True`, the button is asked to be disabled, 'data_loading' is notified
FetchSetLoading(w) ==
    /\ IsWorker(w, "fetch", "set_loading")
    /\ loading' = TRUE
    /\ afterQ' = Append(afterQ, Cb("disable_fetch", {}))
    /\ wk' = [wk EXCEPT ![w].pc = "body"]
    /\ UNCHANGED <<api, btn, timer, tree, item_data, raw_data, checked,
                   following_list, file, gen, io_error, notGui>>

\* `if self.api is None:` fetch_failed is scheduled and the thread goes to its
\* finally clause; otherwise get_all_following() begins
FetchBody(w) ==
    /\ IsWorker(w, "fetch", "body")
    /\ IF api
       THEN /\ wk' = [wk EXCEPT ![w].pc = "fetching"]
            /\ UNCHANGED afterQ
       ELSE /\ wk' = [wk EXCEPT ![w].pc = "finally"]
            /\ afterQ' = Append(afterQ, Cb("fetch_failed", {}))
    /\ UNCHANGED <<api, loading, btn, timer, tree, item_data, raw_data, checked,
                   following_list, file, gen, io_error, notGui>>

\* get_all_following(): one page request.  A full page is followed by another
\* request; a short page, an empty page or an exception (which get_all_following
\* swallows) ends the loop with what was collected.
FetchPage(w) ==
    /\ IsWorker(w, "fetch", "fetching")
    /\ \E outcome \in {"full", "short", "empty", "failed"} :
        /\ outcome = "full" => wk[w].pages + 1 < MaxPages
        /\ wk' = [wk EXCEPT ![w].http = TRUE,
                            ![w].pages = @ + 1,
                            ![w].got = @ \/ outcome \in {"full", "short"},
                            ![w].pc = IF outcome = "full" THEN "fetching" ELSE "fetched"]
    /\ UNCHANGED <<api, loading, btn, afterQ, timer, tree, item_data, raw_data, checked,
                   following_list, file, gen, io_error, notGui>>

\* Lines 1183-1203: an empty list schedules fetch_completed; otherwise the list is
\* processed and saved, and fetch_success plus the 'data_updated' notification
\* (on_following_data_updated -> update_following_list) or fetch_failed follow
FetchResult(w) ==
    /\ IsWorker(w, "fetch", "fetched")
    /\ IF ~wk[w].got
       THEN /\ afterQ' = Append(afterQ, Cb("fetch_completed", {}))
            /\ UNCHANGED <<raw_data, file, io_error>>
       ELSE \E save_success \in BOOLEAN, list \in (SUBSET Ids) \ {{}} :
            IF save_success
            THEN /\ raw_data' = list
                 /\ file' = list
                 /\ afterQ' = afterQ \o <<Cb("fetch_success", {}),
                                          Cb("on_following_data_updated", {})>>
                 /\ UNCHANGED io_error
            ELSE /\ afterQ' = Append(afterQ, Cb("fetch_failed", {}))
                 /\ io_error' = TRUE
                 /\ UNCHANGED <<raw_data, file>>
    /\ wk' = [wk EXCEPT ![w].pc = "finally"]
    /\ UNCHANGED <<api, loading, btn, timer, tree, item_data, checked,
                   following_list, gen, notGui>>

\* `except Exception` (lines 1205-1209): get_all_following raised (the legacy
\* loop lets a failed page propagate) or process_data raised on the list that
\* came back; fetch_failed is scheduled and 'data_error' notified
FetchExcept(w) ==
    /\ \/ IsWorker(w, "fetch", "fetching")
       \/ IsWorker(w, "fetch", "fetched") /\ wk[w].got
    /\ afterQ' = Append(afterQ, Cb("fetch_failed", {}))
    /\ wk' = [wk EXCEPT ![w].http = (@ \/ wk[w].pc = "fetching"), ![w].pc = "finally"]
    /\ UNCHANGED <<api, loading, btn, timer, tree, item_data, raw_data, checked,
                   following_list, file, gen, io_error, notGui>>

FetchFinallyKeepsLoading(w) ==
    /\ IsWorker(w, "fetch", "finally")
    /\ loading' = loading
    /\ wk' = [wk EXCEPT ![w] = Ended(@, "done")]
    /\ UNCHANGED <<api, btn, afterQ, timer, tree, item_data, raw_data, checked,
                   following_list, file, gen, io_error, notGui>>

\* `finally: self.loading = False`
FetchFinally(w) ==
    /\ IsWorker(w, "fetch", "finally")
    /\ loading' = FALSE
    /\ wk' = [wk EXCEPT ![w] = Ended(@, "done")]
    /\ UNCHANGED <<api, btn, afterQ, timer, tree, item_data, raw_data, checked,
                   following_list, file, gen, io_error, notGui>>

(* ---- unfollow_thread ---- *)

\* Lines 1327-1332: the button is asked to be disabled, the counters start at 0
UnfollowStart(w) ==
    /\ IsWorker(w, "unfollow", "start")
    /\ afterQ' = Append(afterQ, Cb("disable_unfollow", {}))
    /\ wk' = [wk EXCEPT ![w].pc = "loop", ![w].idx = 1]
    /\ UNCHANGED <<api, loading, btn, timer, tree, item_data, raw_data, checked,
                   following_list, file, gen, io_error, notGui>>

\* Lines 1334-1364: one item.  Reading a deleted row raises, an empty UID is
\* skipped, int() of a bad UID raises, a missing API object and a False answer
\* count as failed: each of these adds one to failed_count; True adds one to
\* success_count and the item to removed_items.
UnfollowItem(w) ==
    /\ IsWorker(w, "unfollow", "loop")
    /\ wk[w].idx <= Len(wk[w].items)
    /\ LET item == wk[w].items[wk[w].idx] IN
       \E uid \in UidKinds :
       IF item \in tree /\ uid = "valid" /\ api
       THEN \E ok \in BOOLEAN :
            wk' = [wk EXCEPT ![w].http = TRUE,
                             ![w].success = IF ok THEN @ + 1 ELSE @,
                             ![w].removed = IF ok THEN @ \cup {item} ELSE @,
                             ![w].failed = IF ok THEN @ ELSE @ + 1,
                             ![w].idx = @ + 1]
       ELSE wk' = [wk EXCEPT ![w].failed = @ + 1, ![w].idx = @ + 1]
    /\ UNCHANGED <<api, loading, btn, afterQ, timer, tree, item_data, raw_data, checked,
                   following_list, file, gen, io_error, notGui>>

\* Lines 1366-1399: the button is asked to be enabled; with removed items their
\* rows are deleted and the users of the item_data entries that are left are
\* saved, or the data cleared when none is left; the tally is shown.  The
\* callback of lines 1389-1391 shows the status text and then raises NameError
\* (`r` is not bound in that lambda), so update_following_list_local is never
\* called and following_list is left as it is.
UnfollowFinish(w) ==
    /\ IsWorker(w, "unfollow", "loop")
    /\ wk[w].idx > Len(wk[w].items)
    /\ LET removed == wk[w].removed
           remaining_users == Users(item_data \ removed)
       IN afterQ' = afterQ \o <<Cb("enable_unfollow", {})>> \o
              (IF removed = {} THEN <<>>
               ELSE <<Cb("delete_items", removed)>> \o
                    (IF remaining_users # {}
                     THEN <<Cb("save_remaining_users", remaining_users)>>
                     ELSE <<Cb("clear_data", {}), Cb("update_following_list", {})>>))
    /\ wk' = [wk EXCEPT ![w] = Ended(@, "done")]
    /\ UNCHANGED <<api, loading, btn, timer, tree, item_data, raw_data, checked,
                   following_list, file, gen, io_error, notGui>>

(* ---- follow_thread ---- *)

\* Lines 1761-1766
FollowStart(w) ==
    /\ IsWorker(w, "follow", "start")
    /\ afterQ' = Append(afterQ, Cb("disable_import", {}))
    /\ wk' = [wk EXCEPT ![w].pc = "loop", ![w].idx = 1]
    /\ UNCHANGED <<api, loading, btn, timer, tree, item_data, raw_data, checked,
                   following_list, file, gen, io_error, notGui>>

\* Lines 1768-1786: one uid: follow_user answers True or False; without an API
\* object the item counts as failed
FollowItem(w) ==
    /\ IsWorker(w, "follow", "loop")
    /\ wk[w].idx <= Len(wk[w].items)
    /\ IF api
       THEN \E ok \in BOOLEAN :
            wk' = [wk EXCEPT ![w].http = TRUE,
                             ![w].success = IF ok THEN @ + 1 ELSE @,
                             ![w].failed = IF ok THEN @ ELSE @ + 1,
                             ![w].idx = @ + 1]
       ELSE wk' = [wk EXCEPT ![w].failed = @ + 1, ![w].idx = @ + 1]
    /\ UNCHANGED <<api, loading, btn, afterQ, timer, tree, item_data, raw_data, checked,
                   following_list, file, gen, io_error, notGui>>

\* Lines 1788-1801: the button is asked to be enabled, the tally is shown, and
\* after a success a refresh is scheduled 2 s later
FollowFinish(w) ==
    /\ IsWorker(w, "follow", "loop")
    /\ wk[w].idx > Len(wk[w].items)
    /\ afterQ' = Append(afterQ, Cb("enable_import", {}))
    /\ timer' = IF wk[w].success > 0 THEN timer + 1 ELSE timer
    /\ wk' = [wk EXCEPT ![w] = Ended(@, "done")]
    /\ UNCHANGED <<api, loading, btn, tree, item_data, raw_data, checked,
                   following_list, file, gen, io_error, notGui>>

NextGui ==
    \/ ClickFetch
    \/ TimerFetch
    \/ \E i \in tree : ToggleCheck(i)
    \/ ClickBatchUnfollow
    \/ \E n \in 1..MaxItems : ImportAndFollow(n)
    \/ Logout
    \/ RunAfter
    \/ \E w \in 1..MaxWorkers : FetchCheck(w)
    \/ \E w \in 1..MaxWorkers : FetchSetLoading(w)
    \/ \E w \in 1..MaxWorkers : FetchBody(w)
    \/ \E w \in 1..MaxWorkers : FetchPage(w)
    \/ \E w \in 1..MaxWorkers : FetchResult(w)
    \/ \E w \in 1..MaxWorkers : FetchExcept(w)
    \/ \E w \in 1..MaxWorkers : FetchFinally(w)
    \/ \E w \in 1..MaxWorkers : UnfollowStart(w)
    \/ \E w \in 1..MaxWorkers : UnfollowItem(w)
    \/ \E w \in 1..MaxWorkers : UnfollowFinish(w)
    \/ \E w \in 1..MaxWorkers : FollowStart(w)
    \/ \E w \in 1..MaxWorkers : FollowItem(w)
    \/ \E w \in 1..MaxWorkers : FollowFinish(w)

SpecGui == InitGui /\ [][NextGui]_vars

\* A worker that is inside its batch workflow: a fetch_thread past its busy check,
\* an unfollow_thread or follow_thread that has not finished
Running(w) ==
    /\ wk[w].pc \notin {"check", "rejected", "done"}

\* C5: at most one batch workflow runs at a time: while one batch worker is
\* active, another start is rejected as busy and issues no HTTP request.
C5_OneBatchWorkflowAtATime ==
    \A v, w \in 1..Len(wk) :
        (v # w /\ Running(v)) => (~Running(w) /\ (wk[w].pc = "done" \/ ~wk[w].http))

----------------------------------------------------------------------------
(* SpecGuiSearch: a logged-in session that shows the loaded list, searches, *)
(* checks rows and runs batch_unfollow                                      *)

InitGuiSearch ==
    /\ InitGui
    /\ btn = AllButtons("normal")

NextGuiSearch ==
    \/ \E i \in tree : ToggleCheck(i)
    \/ \E results \in SUBSET Ids : PerformSearch(results)
    \/ ClearSearch
    \/ (Len(wk) < MaxBatches /\ ClickBatchUnfollow)
    \/ RunAfter
    \/ \E w \in 1..MaxWorkers : UnfollowStart(w)
    \/ \E w \in 1..MaxWorkers : UnfollowItem(w)
    \/ \E w \in 1..MaxWorkers : UnfollowFinish(w)

SpecGuiSearch == InitGuiSearch /\ [][NextGuiSearch]_vars

\* One batch unfollow, the only thread started, has completed: the thread has
\* ended, its callbacks have run, and no write or removal of the file has raised
BatchUnfollowCompleted ==
    /\ Len(wk) = 1
    /\ wk[1].kind = "unfollow"
    /\ wk[1].pc = "done"
    /\ afterQ = <<>>
    /\ ~io_error

\* C11: after a batch unfollow completes, the persisted entity set equals the
\* entity set before the batch minus exactly the ids whose unfollow succeeded,
\* whether the rows were checked in the full-list view or in a search-result view.
C11_PersistedIsBeforeMinusSucceeded ==
    BatchUnfollowCompleted => file = wk[1].before \ Users(wk[1].removed)

----------------------------------------------------------------------------
(* DataManager.process_data.  Strings are sequences of characters; of the    *)
(* characters only the difference between upper and lower case, white       *)
(* space and the rest matters to the code.  update_time (the wall clock)    *)
(* and the fields process_data copies without looking at them (mtime,       *)
(* mtime_str, face, vip, official) are left out of the snapshot.  The       *)
(* '__total__' entry of an index is IndexTotal of it.                       *)

\* Length of the longest display name
MaxNameLen == 20
\* Length of the list given to process_data
MaxListLen == 2
\* The ids are 1..MaxUid
MaxUid == 2

\* `range(1, min(len(name_lower) + 1, 20))`, `if len(uid_key) <= 20`
NamePrefixLimit == 20
UidLengthLimit == 20
\* `if len(word) >= 2`
MinWordLen == 2

Letters == {"a", "A"}
Space == " "

Rep(c, n) == [i \in 1..n |-> c]

\* str.lower()
Lower(c) == IF c = "A" THEN "a" ELSE c
lower(s) == [i \in DOMAIN s |-> Lower(s[i])]

\* str.strip()
RECURSIVE lstrip(_)
lstrip(s) == IF s # <<>> /\ Head(s) = Space THEN lstrip(Tail(s)) ELSE s
RECURSIVE rstrip(_)
rstrip(s) ==
    IF s # <<>> /\ s[Len(s)] = Space THEN rstrip(SubSeq(s, 1, Len(s) - 1)) ELSE s
strip(s) == rstrip(lstrip(s))

\* str(n) for the ids of the model
Digits == <<"0", "1", "2", "3", "4", "5", "6", "7", "8", "9">>
Str(n) == IF n < 10 THEN <<Digits[n + 1]>>
          ELSE <<Digits[(n \div 10) + 1], Digits[(n % 10) + 1]>>

\* re.findall(r'\b\w+\b', s): the maximal runs of word characters, in order
RECURSIVE findall_words(_, _)
findall_words(s, word) ==
    IF s = <<>> THEN (IF word = <<>> THEN <<>> ELSE <<word>>)
    ELSE IF Head(s) = Space
         THEN (IF word = <<>> THEN <<>> ELSE <<word>>) \o findall_words(Tail(s), <<>>)
         ELSE findall_words(Tail(s), Append(word, Head(s)))

Range(q) == {q[i] : i \in DOMAIN q}

\* A record of the list: user.get('uid', ''), user.get('mid', ''), user.get('uname', ''),
\* user.get('sign'); an absent key reads as the empty string
NoMid == [none |-> TRUE, v |-> 0]
Mid(n) == [none |-> FALSE, v |-> n]
RawUser(uid, mid, uname, sign) == [uid |-> uid, mid |-> mid, uname |-> uname, sign |-> sign]

\* `str(user.get('uid', '')) or str(user.get('mid', ''))`
UidOf(user) ==
    IF user.uid # <<>> THEN user.uid
    ELSE IF user.mid.none THEN <<>> ELSE Str(user.mid.v)

\* user_info
UserInfo(user) ==
    [uid |-> UidOf(user), uname |-> strip(user.uname),
     sign |-> IF user.sign # <<>> THEN strip(user.sign) ELSE <<>>]

AddToKeyAsId(index, key, uid) ==
    IF key \in DOMAIN index THEN [index EXCEPT ![key] = Append(@, key)]
    ELSE (key :> <<key>>) @@ index

\* `if prefix not in index: index[prefix] = []` then `index[prefix].append(uid)`
AddTo(index, key, uid) ==
    IF key \in DOMAIN index THEN [index EXCEPT ![key] = Append(@, uid)]
    ELSE (key :> <<uid>>) @@ index

\* by_sign: `if uid not in index[word]: index[word].append(uid)`
AddOnce(index, key, uid) ==
    IF key \in DOMAIN index /\ uid \in Range(index[key]) THEN index
    ELSE AddTo(index, key, uid)

RECURSIVE AddAll(_, _, _)
\* The uid is added under every key of `keys`, in order
AddAll(index, keys, uid) ==
    IF keys = <<>> THEN index
    ELSE AddAll(AddTo(index, Head(keys), uid), Tail(keys), uid)

RECURSIVE AddAllOnce(_, _, _)
AddAllOnce(index, keys, uid) ==
    IF keys = {} THEN index
    ELSE LET k == CHOOSE x \in keys : TRUE
         IN AddAllOnce(AddOnce(index, k, uid), keys \ {k}, uid)

\* range(1, min(len(name_lower) + 1, 20))
NamePrefixLengths(len) == 1..(Min(len + 1, NamePrefixLimit) - 1)

\* The prefixes of s of the lengths 1..n, shortest first
Prefixes(s, n) == [i \in 1..n |-> SubSeq(s, 1, i)]

\* Histogram: `stats[bucket] += 1`, the bucket named by its lower end
Bump(stats, bucket) ==
    IF bucket \in DOMAIN stats THEN [stats EXCEPT ![bucket] = @ + 1]
    ELSE (bucket :> 1) @@ stats

\* The snapshot before the loop: total_count is len(raw_list)
NewSnapshot(raw_list) == [NoSnapshot EXCEPT !.total_count = Len(raw_list)]

\* processed['users'][uid] = user_info
PutUser(users, info) ==
    IF info.uid \in DOMAIN users THEN [users EXCEPT ![info.uid] = info]
    ELSE (info.uid :> info) @@ users

\* One iteration of `for user in raw_list`
ProcessUser(p, user) ==
    LET info == UserInfo(user)
        uid == info.uid
        name_lower == lower(info.uname)
        uid_key == lower(uid)
        words == {w \in Range(findall_words(lower(info.sign), <<>>)) : Len(w) >= MinWordLen}
    IN  IF uid = <<>> THEN p
        ELSE [p EXCEPT
                !.users = PutUser(@, info),
                !.by_name = AddAll(@, Prefixes(name_lower,
                                Cardinality(NamePrefixLengths(Len(name_lower)))), uid),
                !.by_uid = IF Len(uid_key) <= UidLengthLimit
                           THEN AddAll(@, Prefixes(uid_key, Len(uid_key)), uid)
                           ELSE @,
                !.by_sign = AddAllOnce(@, words, uid),
                !.name_length_stats = Bump(@, (Len(info.uname) \div 10) * 10),
                !.sign_length_stats = Bump(@, (Len(info.sign) \div 50) * 50)]

RECURSIVE ProcessList(_, _)
ProcessList(p, list) ==
    IF list = <<>> THEN p ELSE ProcessList(ProcessUser(p, Head(list)), Tail(list))

\* process_data(raw_list); the '__total__' entries are the numbers of keys
process_data(raw_list) == ProcessList(NewSnapshot(raw_list), raw_list)

IndexTotal(index) == Cardinality(DOMAIN index)

----------------------------------------------------------------------------
(* SpecProcess: process_data applied to every list of the bounds *)

Names == {Rep(c, n) : c \in Letters, n \in 0..MaxNameLen} \cup {<<Space, "a">>}
Signs == {<<>>, <<"a", "A", Space, "a">>}
UidStrings == {<<>>, Str(1)}
MidValues == {NoMid} \cup {Mid(n) : n \in 2..MaxUid}
RawUsers == {RawUser(u, m, n, s) : u \in UidStrings, m \in MidValues, n \in Names, s \in Signs}

InitProcess ==
    /\ IdleRetry
    /\ IdleApi
    /\ IdleGov
    /\ IdleBatch
    /\ IdleGui
    /\ IdleStore
    /\ IdleSearch
    /\ IdleFetch
    /\ IdlePage
    /\ \E l \in SeqsUpTo(RawUsers, MaxListLen) :
        pd = [raw_list |-> l, called |-> FALSE, processed |-> NewSnapshot(<<>>)]

ProcessDataCall ==
    /\ ~pd.called
    /\ pd' = [pd EXCEPT !.called = TRUE, !.processed = process_data(pd.raw_list)]
    /\ UNCHANGED notProcess

NextProcess == ProcessDataCall

SpecProcess == InitProcess /\ [][NextProcess]_vars

\* C13: every snapshot built by process_data has total_count equal to the number
\* of entries of its users map, also for lists with duplicate ids or with
\* entities that lack an id.
C13_TotalCountIsNumberOfEntities ==
    pd.called => pd.processed.total_count = Cardinality(DOMAIN pd.processed.users)

\* The ids listed under key p of an index
Listed(index, p) == IF p \in DOMAIN index THEN Range(index[p]) ELSE {}

\* p is a prefix of s of a length in 1..20
IsIndexedPrefix(p, s) ==
    /\ Len(p) \in 1..Min(Len(s), NamePrefixLimit)
    /\ p = SubSeq(s, 1, Len(p))

\* The keys an index over the model's names may have
AllPrefixes ==
    UNION {{SubSeq(lower(strip(n)), 1, k) : k \in 1..Len(lower(strip(n)))} : n \in Names}

\* C14: in every snapshot built by process_data an entity id is listed under
\* by_name[p] if and only if p is a prefix, of length 1 to 20, of the entity's
\* case-folded display name as stored in the snapshot.
C14_NamePrefixIndexExact ==
    pd.called =>
        \A uid \in DOMAIN pd.processed.users :
            \A p \in AllPrefixes \cup DOMAIN pd.processed.by_name :
                uid \in Listed(pd.processed.by_name, p)
                    <=> IsIndexedPrefix(p, lower(pd.processed.users[uid].uname))

\* The ids listed under any key of an index
AllListed(index) == UNION {Range(index[k]) : k \in DOMAIN index}

\* C15: in every snapshot built by process_data every id listed under any key of
\* by_name, by_uid or by_sign is a key of the snapshot's users map.
C15_IndexedIdsAreEntities ==
    pd.called =>
        (AllListed(pd.processed.by_name) \cup AllListed(pd.processed.by_uid)
            \cup AllListed(pd.processed.by_sign)) \subseteq DOMAIN pd.processed.users

\* A list with the same id twice, under two names, has been processed and the
\* three indices list ids
C15_Witness ==
    /\ pd.called
    /\ Len(pd.raw_list) = 2
    /\ UidOf(pd.raw_list[1]) = UidOf(pd.raw_list[2])
    /\ UidOf(pd.raw_list[1]) # <<>>
    /\ pd.raw_list[1].uname # pd.raw_list[2].uname
    /\ AllListed(pd.processed.by_name) # {}
    /\ AllListed(pd.processed.by_uid) # {}
    /\ AllListed(pd.processed.by_sign) # {}

----------------------------------------------------------------------------
(* DataManager: save_data with create_backup and cleanup_old_backups,        *)
(* load_local_data, clear_data and the observers.  The data directory holds *)
(* following_data.json and the backup files, named by the second they were  *)
(* made in.  The file operations of this part do not fail.                  *)

\* cleanup_old_backups(max_keep=5)
max_keep == 5

\* Users a saved list of SpecStore may hold
StoreUsers ==
    {RawUser(Str(1), NoMid, <<"a">>, <<>>),
     RawUser(<<>>, Mid(2), <<Space, "a">>, <<>>),
     RawUser(<<>>, NoMid, <<"a">>, <<>>)}
\* Length of a saved list of SpecStore
MaxStoreListLen == 2
\* Saves in one run of SpecStore, and its last clock value
MaxStoreSaves == 2
MaxStoreClock == 1
\* Saves in one run of SpecBackup, and its last clock value
MaxBackupSaves == 7
MaxBackupClock == 7

ObserverNames == {"gui", "other"}

\* What following_data.json may hold when the program starts: nothing, text that
\* is not JSON, a JSON value that is not an object, an object whose 'users' is
\* not an object, an object without 'users', an object whose 'users' maps ids
\* to values that are not objects
ForeignKinds == {"undecodable", "not_object", "users_not_map", "no_users", "bad_entities"}
Foreign(kind) == Json(kind, NoSnapshot)

\* A value of raw_data that is not an entity
NonEntity == [uid |-> <<>>, uname |-> <<>>, sign |-> <<>>]

Backup(content, mtime) == [content |-> content, mtime |-> mtime]

\* open(backup_file, 'w') ... dst.write(src.read()): the file named after the
\* second t is created, or overwritten when it exists
WriteBackup(backups, t, content) ==
    IF t \in DOMAIN backups THEN [backups EXCEPT ![t] = Backup(content, t)]
    ELSE (t :> Backup(content, t)) @@ backups

\* The n files of newest modification time
Newest(backups, n) ==
    CHOOSE S \in SUBSET DOMAIN backups :
        /\ Cardinality(S) = Min(n, Cardinality(DOMAIN backups))
        /\ \A k \in S, j \in (DOMAIN backups) \ S : backups[k].mtime >= backups[j].mtime

cleanup_keeps_oldest(backups, n) ==
    LET kept == CHOOSE S \in SUBSET DOMAIN backups :
                    /\ Cardinality(S) = Min(n, Cardinality(DOMAIN backups))
                    /\ \A k \in S, j \in (DOMAIN backups) \ S :
                          backups[k].mtime <= backups[j].mtime
    IN  [k \in kept |-> backups[k]]

\* cleanup_old_backups: sorted by mtime, newest first; all after the first
\* max_keep are removed
cleanup_old_backups(backups, n) ==
    [k \in Newest(backups, n) |-> backups[k]]

\* create_backup() at second t
create_backup(f, t) ==
    IF f.file.kind = "missing" THEN f
    ELSE [f EXCEPT !.backups = cleanup_old_backups(WriteBackup(@, t, f.file), max_keep)]

\* save_data(data) at second t: the backup, then json.dump into the data file
save_data(f, t, data) ==
    [create_backup(f, t) EXCEPT !.file = Json("snapshot", data)]

\* extract_raw_data(): list(users.values())
extract_raw_data(snapshot) == Range(snapshot.users)

\* load_local_data(): what it leaves in [raw_data, processed_data] and returns
load_local_data(d, f) ==
    IF f.file.kind = "missing"
    THEN [d EXCEPT !.ret = "false"]
    ELSE IF f.file.kind = "snapshot"
    THEN [d EXCEPT !.processed_data = f.file,
                   !.raw_data = extract_raw_data(f.file.val),
                   !.ret = "true"]
    ELSE IF f.file.kind = "no_users"
    THEN \* .get('users', {}) gives {}, the other .get calls succeed
         [d EXCEPT !.processed_data = f.file, !.raw_data = {}, !.ret = "true"]
    ELSE IF f.file.kind = "bad_entities"
    THEN \* list(users.values()) is a list of values that are not entities
         [d EXCEPT !.processed_data = f.file, !.raw_data = {NonEntity}, !.ret = "true"]
    ELSE \* json.load raises, or .get / .values() raises AttributeError
         [d EXCEPT !.processed_data = EmptyObject, !.raw_data = {}, !.ret = "false"]

\* What a callback does when it is called: it returns, it raises, or it calls
\* register_observer / unregister_observer of the DataManager and returns
Behaviours ==
    {[do |-> "return", name |-> "-"], [do |-> "raise", name |-> "-"]}
        \cup {[do |-> d, name |-> n] : d \in {"register", "unregister"}, n \in ObserverNames}

\* self.observers after a callback of behaviour b has run
AfterCallback(observers, b) ==
    IF b.do = "register" /\ b.name \notin Range(observers) THEN Append(observers, b.name)
    ELSE IF b.do = "unregister" THEN SelectSeq(observers, LAMBDA o : o # b.name)
    ELSE observers

RECURSIVE notify_observers(_, _, _, _)
\* notify_observers: `for name, callback in self.observers.items()` from the
\* position i on.  Each step of the iteration raises RuntimeError when the dict
\* has changed its size since the loop began; that is outside the try around
\* the callback, which catches what the callback raises.  st is
\* [observers, delivered, error]: the dict, the names called so far, whether
\* the loop raised.
notify_observers(at_start, behaviour, i, st) ==
    IF Len(st.observers) # Len(at_start) THEN [st EXCEPT !.error = TRUE]
    ELSE IF i > Len(at_start) THEN st
    ELSE notify_observers(at_start, behaviour, i + 1,
            [st EXCEPT !.delivered = Append(@, at_start[i]),
                       !.observers = AfterCallback(@, behaviour[at_start[i]])])

\* The DataManager after notify_observers(event) under the callbacks' behaviour
Notified(d, behaviour) ==
    LET st == notify_observers(d.observers, behaviour, 1,
                  [observers |-> d.observers, delivered |-> <<>>, error |-> FALSE])
    IN  [d EXCEPT !.observers = st.observers, !.delivered = st.delivered,
                  !.error = st.error, !.at_start = d.observers]

\* register_observer(name, callback): self.observers[name] = callback
RegisterObserver(name) ==
    /\ name \notin Range(dm.observers)
    /\ dm' = [dm EXCEPT !.observers = Append(@, name), !.last = "register_observer"]
    /\ UNCHANGED <<fs, clock, env, notStore>>

\* unregister_observer(name)
UnregisterObserver(name) ==
    /\ name \in Range(dm.observers)
    /\ dm' = [dm EXCEPT !.observers = SelectSeq(@, LAMBDA o : o # name),
                         !.last = "unregister_observer"]
    /\ UNCHANGED <<fs, clock, env, notStore>>

\* save_following_list(following_list): process_data, then save_data
SaveFollowingList(l) ==
    /\ l \in env.lists
    /\ dm.saves < env.max_saves
    /\ fs' = save_data(fs, clock, process_data(l))
    /\ dm' = [dm EXCEPT !.ret = "true", !.last = "save", !.saved = l, !.saves = @ + 1]
    /\ UNCHANGED <<clock, env, notStore>>

\* load_local_data()
LoadLocalData ==
    /\ dm' = [load_local_data(dm, fs) EXCEPT
                !.last = IF dm.last = "save" THEN "load_after_save" ELSE "load"]
    /\ UNCHANGED <<fs, clock, env, notStore>>

\* notify_observers(event), as fetch_thread calls it; a RuntimeError of the
\* loop leaves the call
NotifyCall ==
    /\ \E behaviour \in [Range(dm.observers) -> Behaviours] :
        dm' = [Notified(dm, behaviour) EXCEPT !.last = "notify"]
    /\ UNCHANGED <<fs, clock, env, notStore>>

\* clear_data(): the memory is emptied, the file removed when it exists (the
\* removal succeeds), and 'data_cleared' notified; what notify_observers
\* raises is caught and printed
ClearDataCall ==
    /\ \E behaviour \in [Range(dm.observers) -> Behaviours] :
        dm' = [Notified(dm, behaviour) EXCEPT
                  !.raw_data = {}, !.processed_data = EmptyObject,
                  !.ret = "none", !.last = "clear"]
    /\ fs' = [fs EXCEPT !.file = Missing]
    /\ UNCHANGED <<clock, env, notStore>>

\* A second passes
ClockTick ==
    /\ clock < env.horizon
    /\ clock' = clock + 1
    /\ UNCHANGED <<dm, fs, env, notStore>>

\* DataManager.__init__ before its load_local_data(), over a data directory
\* without backups
InitStoreOver(files, lists, saves, horizon) ==
    /\ IdleRetry
    /\ IdleApi
    /\ IdleGov
    /\ IdleBatch
    /\ IdleGui
    /\ IdleProcess
    /\ IdleSearch
    /\ IdleFetch
    /\ IdlePage
    /\ dm = [raw_data |-> {}, processed_data |-> EmptyObject, observers |-> <<>>,
             ret |-> "none", last |-> "none", saved |-> <<>>, saves |-> 0,
             delivered |-> <<>>, at_start |-> <<>>, error |-> FALSE]
    /\ \E data_file \in files : fs = [file |-> data_file, backups |-> <<>>]
    /\ clock = 0
    /\ env = [lists |-> lists, max_saves |-> saves, horizon |-> horizon]

StoreLists == SeqsUpTo(StoreUsers, MaxStoreListLen)

\* Saves of two different lists, one after another, over seconds that pass or not
BackupLists == {<<>>, <<RawUser(Str(1), NoMid, <<"a">>, <<>>)>>}

InitStore ==
    InitStoreOver({Missing} \cup {Foreign(k) : k \in ForeignKinds},
                  StoreLists, MaxStoreSaves, MaxStoreClock)

NextStore ==
    \/ \E l \in StoreLists : SaveFollowingList(l)
    \/ LoadLocalData
    \/ ClearDataCall
    \/ ClockTick

SpecStore == InitStore /\ [][NextStore]_vars

\* The observers of a DataManager whose data file is saved, loaded and cleared
InitObservers == InitStoreOver({Missing}, BackupLists, MaxStoreSaves, 0)

NextObservers ==
    \/ \E name \in ObserverNames : RegisterObserver(name)
    \/ \E name \in ObserverNames : UnregisterObserver(name)
    \/ \E l \in BackupLists : SaveFollowingList(l)
    \/ LoadLocalData
    \/ ClearDataCall
    \/ NotifyCall

SpecObservers == InitObservers /\ [][NextObservers]_vars

InitBackup == InitStoreOver({Missing}, BackupLists, MaxBackupSaves, MaxBackupClock)

NextBackup ==
    \/ \E l \in BackupLists : SaveFollowingList(l)
    \/ ClockTick

SpecBackup == InitBackup /\ [][NextBackup]_vars

\* The entity the caller handed in: its id and its field values
InputEntity(user) == [uid |-> UidOf(user), uname |-> user.uname, sign |-> user.sign]

\* C16: for every input list, process_data, save_data and then load_local_data
\* yield an entity set whose ids and field values are those of the input, minus
\* the entities that lack an id.
C16_SaveLoadRoundTrip ==
    dm.last = "load_after_save" =>
        /\ dm.ret = "true"
        /\ dm.raw_data = {InputEntity(u) : u \in {v \in Range(dm.saved) : UidOf(v) # <<>>}}

\* The step is a save_data
IsSave == dm'.saves = dm.saves + 1

\* C17: every save_data that overwrites an existing data file first creates a
\* backup file whose content is the file's content before the overwrite, and a
\* backup that is kept is never modified by a later save_data, also one made
\* within the same second.
C17_BackupsArePointInTimeCopies ==
    [][IsSave =>
        /\ fs.file.kind # "missing" =>
              \E b \in DOMAIN fs'.backups : fs'.backups[b].content = fs.file
        /\ \A b \in (DOMAIN fs.backups) \cap (DOMAIN fs'.backups) :
              fs'.backups[b].content = fs.backups[b].content]_vars

C19_CorruptFileLoadsEmpty ==
    (dm.last = "load" /\ fs.file.kind \in ForeignKinds) =>
        /\ dm.raw_data = {}
        /\ dm.processed_data = EmptyObject
        /\ dm.ret = "false"

\* C20: after clear_data has returned, raw_data and processed_data are empty,
\* the data file does not exist and 'data_cleared' has been delivered to every
\* registered observer.
C20_ClearEmptiesAndNotifies ==
    dm.last = "clear" =>
        /\ dm.raw_data = {}
        /\ dm.processed_data = EmptyObject
        /\ fs.file = Missing
        /\ Range(dm.delivered) = Range(dm.at_start)

\* C21: for every notify_observers call, every observer registered when the
\* call starts receives the event exactly once, also when a callback raises or
\* registers / unregisters an observer during the delivery.
C21_EveryObserverNotifiedOnce ==
    dm.last = "notify" => dm.delivered = dm.at_start

----------------------------------------------------------------------------
(* SearchService: search over the data set by set_data, and the query       *)
(* history with its file search_history.json.  The elapsed time of a result *)
(* is left out.                                                             *)

\* save_history writes self.search_history[-50:]
HistoryCap == 50

\* The page and page_size arguments of SpecSearch: pages -MaxPage+2 .. MaxPage
MaxPage == 3
MaxPageSize == 2
\* Distinct queries of SpecHistory, and how many of the first of them are
\* searched again
MaxQueries == 52
MaxRepeated == 2

\* lst[start:stop] for integers start, stop of either sign
PySlice(lst, start, stop) ==
    LET n == Len(lst)
        Clamp(i) == IF i < 0 THEN (IF i + n < 0 THEN 0 ELSE i + n) ELSE Min(i, n)
    IN  IF Clamp(start) >= Clamp(stop) THEN <<>>
        ELSE SubSeq(lst, Clamp(start) + 1, Clamp(stop))

\* str.split(): the maximal runs of characters that are not whitespace
split(s) == findall_words(s, <<>>)

\* `kw in s` for strings
Contains(kw, s) == \E i \in 0..(Len(s) - Len(kw)) : SubSeq(s, i + 1, i + Len(kw)) = kw

\* `not query or not query.strip()`
IsBlankQueryOnlyEmpty(query) == query = <<>>

IsBlankQuery(query) == query = <<>> \/ strip(query) = <<>>

\* keyword in uname.lower() or keyword in str(uid) or keyword in sign.lower()
MatchesKeyword(user, kw) ==
    \/ Contains(kw, lower(user.uname))
    \/ Contains(kw, user.uid)
    \/ Contains(kw, lower(user.sign))

MatchesEveryToken(user, keywords) ==
    \A i \in DOMAIN keywords : MatchesKeyword(user, keywords[i])

\* `for kw in keywords: if kw in uname or kw in sign or kw in uid: matched = True`
MatchesAnyToken(user, keywords) ==
    \E i \in DOMAIN keywords : MatchesKeyword(user, keywords[i])

\* The list `results` of search, before it is sliced
Matches(data, query, exact) ==
    LET keyword == lower(strip(query))
    IN  SelectSeq(data, LAMBDA user :
            IF exact THEN MatchesKeyword(user, keyword)
            ELSE MatchesAnyToken(user, split(keyword)))

\* list.remove(x): the first occurrence goes
RECURSIVE Remove(_, _)
Remove(lst, x) ==
    IF lst = <<>> THEN <<>>
    ELSE IF Head(lst) = x THEN Tail(lst)
    ELSE <<Head(lst)>> \o Remove(Tail(lst), x)

\* save_history(): json.dump(self.search_history[-50:])
save_history(svc) ==
    [svc EXCEPT !.history_file =
        [exists |-> TRUE,
         content |-> PySlice(svc.search_history, -HistoryCap, Len(svc.search_history))]]

add_to_history_keeping_old(svc, query) ==
    IF query # <<>> /\ strip(query) # <<>>
    THEN save_history([svc EXCEPT !.search_history = <<strip(query)>> \o @])
    ELSE svc

\* add_to_history(query)
add_to_history(svc, query) ==
    IF query # <<>> /\ strip(query) # <<>>
    THEN save_history([svc EXCEPT !.search_history =
            <<strip(query)>> \o
                (IF strip(query) \in Range(@) THEN Remove(@, strip(query)) ELSE @)])
    ELSE svc

\* search(query, exact, page, page_size): the service after the call, with the
\* arguments and the returned dict
search(svc, query, exact, page, page_size) ==
    LET call == [query |-> query, exact |-> exact, page |-> page, page_size |-> page_size]
    IN
    IF IsBlankQuery(query)
    THEN [svc EXCEPT !.call = call,
                     !.result = [results |-> <<>>, total |-> 0, page |-> 1,
                                 page_size |-> page_size, total_pages |-> 0,
                                 query |-> <<>>]]
    ELSE LET results == Matches(svc.data, query, exact)
             total == Len(results)
             total_pages == (total + page_size - 1) \div page_size
             clamped == Min(page, IF total_pages > 1 THEN total_pages ELSE 1)
             start_idx == (clamped - 1) * page_size
             end_idx == start_idx + page_size
         IN  [add_to_history(svc, strip(query)) EXCEPT
                !.call = call,
                !.result = [results |-> PySlice(results, start_idx, end_idx),
                            total |-> total, page |-> clamped,
                            page_size |-> page_size, total_pages |-> total_pages,
                            query |-> strip(query)]]

\* perform_search / search: one call of search
SearchCall(query, exact, page, page_size) ==
    /\ ss' = search(ss, query, exact, page, page_size)
    /\ UNCHANGED notSearch

\* SearchService.__init__ of the next run of the program: load_history()
LoadHistory ==
    /\ ss' = [ss EXCEPT !.search_history =
                  IF ss.history_file.exists THEN ss.history_file.content ELSE <<>>,
                !.call = NoCall, !.result = NoResult]
    /\ UNCHANGED notSearch

\* clear_history()
ClearHistory ==
    /\ ss' = [save_history([ss EXCEPT !.search_history = <<>>]) EXCEPT
                !.call = NoCall, !.result = NoResult]
    /\ UNCHANGED notSearch

Entity(uid, uname, sign) == [uid |-> uid, uname |-> uname, sign |-> sign]

\* The lists set_data is given in SpecSearch
SearchData ==
    LET ann == Entity(Str(1), <<"A", "n", "n">>, <<>>)
        anna == Entity(Str(2), <<"A", "n", "n", "a">>, <<"a">>)
        bob == Entity(Str(3), <<"b">>, <<"A", "n", Space, "1">>)
    IN  {<<ann, anna>>, <<bob, ann, anna>>}

\* The queries of SpecSearch
SearchQueries ==
    {<<>>, <<Space>>, <<"A", "n", "n">>, <<Space, "a", "n", Space>>, <<"1">>,
     <<"a", "n", Space, "2">>}

\* SearchService.__init__ without a history file, then set_data(data)
InitSearchOver(datas) ==
    /\ IdleRetry
    /\ IdleApi
    /\ IdleGov
    /\ IdleBatch
    /\ IdleGui
    /\ IdleProcess
    /\ IdleStore
    /\ IdleFetch
    /\ IdlePage
    /\ \E data \in datas : ss = [IdleService EXCEPT !.data = data]

InitSearch == InitSearchOver(SearchData)

NextSearch ==
    \/ \E query \in SearchQueries, exact \in BOOLEAN,
          page \in (2 - MaxPage)..MaxPage, page_size \in 1..MaxPageSize :
            SearchCall(query, exact, page, page_size)
    \/ LoadHistory
    \/ ClearHistory

SpecSearch == InitSearch /\ [][NextSearch]_vars

\* Many searches: the next query that was not searched before, or one of the
\* first MaxRepeated queries again
InitHistory == InitSearchOver({<<>>})

NextHistory ==
    \/ \E n \in 1..MaxQueries :
          /\ n <= Len(ss.search_history) + 1
          /\ n > Len(ss.search_history) \/ n <= MaxRepeated
          /\ SearchCall(Str(n), FALSE, 1, 1)
    \/ LoadHistory

SpecHistory == InitHistory /\ [][NextHistory]_vars

\* The last operation on the service was a search whose query, trimmed, is
\* not empty
SearchedNonBlank == ss.call # NoCall /\ strip(ss.call.query) # <<>>

\* C22: a search with an empty or whitespace-only query returns results = [],
\* total = 0 and total_pages = 0 whatever the data, and leaves the query history
\* unchanged, in memory and in the history file.
C22_BlankQueryReturnsNothing ==
    [][(ss'.call # NoCall /\ strip(ss'.call.query) = <<>>) =>
          /\ ss'.result.results = <<>>
          /\ ss'.result.total = 0
          /\ ss'.result.total_pages = 0
          /\ ss'.search_history = ss.search_history
          /\ ss'.history_file = ss.history_file]_vars

\* A whitespace-only query was searched over data, after other queries
C22_Witness ==
    /\ ss.call.query = <<Space>>
    /\ ss.call.page_size > 0
    /\ ss.data # <<>>
    /\ Len(ss.search_history) >= 2
    /\ ss.result.results = <<>>

\* C23: for every requested page (0, negative and above total_pages included)
\* and every page_size >= 1, search returns total_pages = ceil(total / page_size),
\* a page inside [1, max(1, total_pages)], and as results exactly the slice of
\* the matches that belongs to the returned page.
C23_PageClampedAndSliced ==
    SearchedNonBlank =>
        LET r == ss.result
            matches == Matches(ss.data, ss.call.query, ss.call.exact)
        IN  /\ r.total_pages * r.page_size >= r.total
            /\ (r.total_pages - 1) * r.page_size < r.total \/ r.total = 0
            /\ r.total = 0 => r.total_pages = 0
            /\ r.page >= 1
            /\ r.page <= (IF r.total_pages > 1 THEN r.total_pages ELSE 1)
            /\ r.results = SubSeq(matches, (r.page - 1) * r.page_size + 1,
                                  Min(r.page * r.page_size, r.total))

C25_HistoryDeduplicatedNewestFirst ==
    /\ [](\A i, j \in DOMAIN ss.search_history :
            ss.search_history[i] = ss.search_history[j] => i = j)
    /\ [](SearchedNonBlank => Head(ss.search_history) = strip(ss.call.query))
    /\ [][(ss'.call # NoCall /\ strip(ss'.call.query) # <<>>) =>
            ss'.search_history =
                <<strip(ss'.call.query)>> \o
                    SelectSeq(ss.search_history, LAMBDA x : x # strip(ss'.call.query))]_vars

\* ' an ' was searched again after three other queries and stands first, once
C25_Witness ==
    /\ ss.call.query = <<Space, "a", "n", Space>>
    /\ Len(ss.search_history) = 4
    /\ ss.search_history[1] = <<"a", "n">>

\* C26: after any sequence of searches the query history the service holds
\* never has more than 50 entries.
C26_HistoryAtMostFifty ==
    Len(ss.search_history) <= HistoryCap

\* C27: after every search with a non-empty query the history file holds the
\* most recent distinct queries, newest first, capped at 50; its first entry is
\* the query just searched, also after more than 50 distinct queries.
C27_HistoryFileNewestFifty ==
    SearchedNonBlank =>
        /\ ss.history_file.exists
        /\ ss.history_file.content =
              SubSeq(ss.search_history, 1, Min(HistoryCap, Len(ss.search_history)))
        /\ Head(ss.history_file.content) = strip(ss.call.query)

----------------------------------------------------------------------------
(* fetch_thread from the answer of get_all_following() on, statement by     *)
(* statement, beside a reader on the main thread (fetch_success,            *)
(* on_following_data_updated, get_statistics).  ft.mem are the four fields  *)
(* of the DataManager the thread assigns; the only observer is the GUI's    *)
(* on_data_changed, which returns.  SpecGui takes lines 1188-1203 as one    *)
(* step.                                                                    *)

\* Fetches in one run of SpecInstall, and its last clock value
MaxFetches == 2
MaxInstallClock == 1

\* The lists get_all_following() answers with
FetchedLists ==
    {<<RawUser(Str(1), NoMid, <<"a">>, <<>>)>>,
     <<RawUser(Str(1), NoMid, <<"a">>, <<>>), RawUser(<<>>, Mid(2), <<"A">>, <<>>)>>}

\* The DataManager's fields after fetch_thread has installed the snapshot it
\* built from the list `fetched` at second t (lines 1192-1195)
Installed(fetched, t) ==
    [processed_data |-> Json("snapshot", process_data(fetched)),
     raw_data |-> Range(fetched),
     last_update |-> t,
     update_count |-> process_data(fetched).total_count]

\* notify_observers(event): the events the GUI's callback has received
Deliver(events, event) == Append(events, event)

AfterSaveIgnoringFailure(save_success) == "install_processed_data"

\* `if save_success:` ... `else:`
AfterSave(save_success) ==
    IF save_success THEN "install_processed_data" ELSE "save_failed"

\* Lines 1168-1171 and 1181-1188: 'data_loading' is notified, get_all_following()
\* answers a list that is not empty and process_data builds the snapshot
FetchProcess(fetched) ==
    /\ ft.pc = "idle"
    /\ ft.fetches < MaxFetches
    /\ ft' = [ft EXCEPT !.pc = "save", !.fetches = @ + 1,
                        !.following_list = fetched,
                        !.built_at = clock,
                        !.before = ft.mem,
                        !.outcome = "none",
                        !.events = Deliver(<<>>, "data_loading")]
    /\ UNCHANGED <<fs, notFetch>>

\* save_data(processed_data): True, or False when the backup, the open or the
\* dump raised; a dump that raised leaves a data file that is cut short
FetchSave ==
    /\ ft.pc = "save"
    /\ \E save_success \in BOOLEAN :
        /\ ft' = [ft EXCEPT !.pc = AfterSave(save_success),
                            !.outcome = IF save_success THEN "saved" ELSE "save_failed"]
        /\ IF save_success
           THEN fs' = save_data(fs, clock, process_data(ft.following_list))
           ELSE \/ fs' = fs
                \/ fs' = [create_backup(fs, clock) EXCEPT !.file = Json("undecodable", NoSnapshot)]
    /\ UNCHANGED notFetch

\* self.data_manager.processed_data = processed_data
InstallProcessedData ==
    /\ ft.pc = "install_processed_data"
    /\ ft' = [ft EXCEPT !.pc = "install_raw_data",
                        !.mem.processed_data =
                            Installed(ft.following_list, ft.built_at).processed_data]
    /\ UNCHANGED <<fs, notFetch>>

\* self.data_manager.raw_data = following_list
InstallRawData ==
    /\ ft.pc = "install_raw_data"
    /\ ft' = [ft EXCEPT !.pc = "install_last_update",
                        !.mem.raw_data = Installed(ft.following_list, ft.built_at).raw_data]
    /\ UNCHANGED <<fs, notFetch>>

\* self.data_manager.last_update = processed_data.get('update_time', '')
InstallLastUpdate ==
    /\ ft.pc = "install_last_update"
    /\ ft' = [ft EXCEPT !.pc = "install_update_count",
                        !.mem.last_update =
                            Installed(ft.following_list, ft.built_at).last_update]
    /\ UNCHANGED <<fs, notFetch>>

\* self.data_manager.update_count = processed_data.get('total_count', 0), then
\* fetch_success is scheduled and 'data_updated' notified
InstallUpdateCount ==
    /\ ft.pc = "install_update_count"
    /\ ft' = [ft EXCEPT !.pc = "finally",
                        !.mem.update_count =
                            Installed(ft.following_list, ft.built_at).update_count,
                        !.events = Deliver(@, "data_updated")]
    /\ UNCHANGED <<fs, notFetch>>

\* The else branch: fetch_failed is scheduled and 'data_error' notified
FetchSaveFailed ==
    /\ ft.pc = "save_failed"
    /\ ft' = [ft EXCEPT !.pc = "finally", !.events = Deliver(@, "data_error")]
    /\ UNCHANGED <<fs, notFetch>>

\* `finally: self.loading = False`: the thread ends, another fetch may start
FetchEnd ==
    /\ ft.pc = "finally"
    /\ ft' = [ft EXCEPT !.pc = "idle"]
    /\ UNCHANGED <<fs, notFetch>>

\* The main thread reads the DataManager's fields, all at one instant
ReaderObserves ==
    /\ ft' = [ft EXCEPT !.seen = ft.mem]
    /\ UNCHANGED <<fs, notFetch>>

InitInstall ==
    /\ IdleRetry
    /\ IdleApi
    /\ IdleGov
    /\ IdleBatch
    /\ IdleGui
    /\ IdleProcess
    /\ IdleSearch
    /\ dm = [raw_data |-> {}, processed_data |-> EmptyObject, observers |-> <<>>,
             ret |-> "none", last |-> "none", saved |-> <<>>, saves |-> 0,
             delivered |-> <<>>, at_start |-> <<>>, error |-> FALSE]
    /\ fs = [file |-> Missing, backups |-> <<>>]
    /\ clock = 0
    /\ env = [lists |-> FetchedLists, max_saves |-> MaxFetches, horizon |-> MaxInstallClock]
    /\ ft = IdleThread
    /\ IdlePage

NextInstall ==
    \/ \E fetched \in FetchedLists : FetchProcess(fetched)
    \/ FetchSave
    \/ InstallProcessedData
    \/ InstallRawData
    \/ InstallLastUpdate
    \/ InstallUpdateCount
    \/ FetchSaveFailed
    \/ FetchEnd
    \/ ReaderObserves
    \/ ClockTick

SpecInstall == InitInstall /\ [][NextInstall]_vars

\* C28: while fetch_thread installs a new snapshot, a reader on another thread
\* never observes DataManager fields taken from two different snapshots: what
\* it sees is either the state before any fetch or the state some fetch installed.
C28_InstallIsAtomic ==
    \/ ft.seen = NoMemory
    \/ \E fetched \in FetchedLists, t \in 0..MaxInstallClock :
          ft.seen = Installed(fetched, t)

\* C29: when save_data fails during fetch-all, processed_data, raw_data,
\* last_update and update_count are left as they were, 'data_error' is
\* delivered to the observer and 'data_updated' is not.
C29_FailedSaveLeavesMemory ==
    (ft.outcome = "save_failed" /\ ft.pc \in {"finally", "idle"}) =>
        /\ ft.mem = ft.before
        /\ "data_error" \in Range(ft.events)
        /\ "data_updated" \notin Range(ft.events)

\* A second fetch failed to save over the snapshot the first one installed
C29_Witness ==
    /\ ft.pc = "finally"
    /\ ft.fetches = 2
    /\ ft.outcome = "save_failed"
    /\ ft.mem # NoMemory
    /\ ft.mem = ft.before
    /\ fs.file.kind = "undecodable"

----------------------------------------------------------------------------
\* C30: during a transport call (_make_request with anti-throttling enabled)
\* after_request is executed after every attempt, when the HTTP call returned
\* a response and when it raised a transport-level exception: no HTTP request
\* of the log is followed by anything but a completed after_request, and none
\* is the last event of a call that has ended.
C30_PostWaitAfterEveryAttempt ==
    (cfg.enabled /\ op \in TransportOps) =>
        \A i \in HttpEvents(log) :
            /\ i < Len(log) => log[i + 1].ev = "after"
            /\ i = Len(log) => pc \notin {"mr_done", "done", "idle"}

----------------------------------------------------------------------------
\* C31: in a transport call (_make_request with anti-throttling enabled) a
\* retry delay is slept only when another attempt follows it: every sleep of
\* the log is followed by a further HTTP request, or the call has not ended;
\* a call that ended by raising slept nothing after its last attempt,
\* whatever that attempt's outcome was (HTTP 412 / 429 included).
C31_NoSleepAfterLastAttempt ==
    (cfg.enabled /\ op \in TransportOps /\ pc \in {"mr_done", "done"}) =>
        \A i \in SleepEvents(log) : \E j \in HttpEvents(log) : j > i

----------------------------------------------------------------------------
(* The delays of AntiAntiControl, in milliseconds *)

\* self.base_backoff_ms
base_backoff_ms == 1000

\* How many points of random.uniform's interval are drawn, both ends included
JitterSamples == 10

\* random.uniform(0, backoff * 0.3)
JitterDraws(backoff) ==
    {(backoff * 3 * k) \div (10 * JitterSamples) : k \in 0..JitterSamples}

\* AntiAntiControl.get_exponential_backoff(attempt): the values it may return
get_exponential_backoff(a) ==
    LET backoff == base_backoff_ms * (2 ^ a)
    IN  {backoff + jitter : jitter \in JitterDraws(backoff)}

\* AntiAntiControl.get_retry_delay(attempt, error_code): the values it may return
get_retry_delay(a, error_code) ==
    IF (~error_code.none) /\ error_code.v \in {-352, 412}
    THEN {(d * 3) \div 2 : d \in get_exponential_backoff(a)}
    ELSE get_exponential_backoff(a)

\* The delays a time.sleep of _make_request may be called with, by the
\* expression that computed it
SleptDelays(e) ==
    CASE e.kind = "risk" -> get_retry_delay(e.n, Code(-352))
      [] e.kind = "generic" -> get_retry_delay(e.n, NoCode)
      [] e.kind = "backoff2" -> {d * 2 : d \in get_exponential_backoff(e.n)}
      [] OTHER -> {}

\* The answer of the attempt a sleep of a _make_request log follows
\* (after_request stands between them when the request was answered)
AnswerBefore(l, i) ==
    IF l[i - 1].ev = "http" THEN l[i - 1].resp ELSE l[i - 2].resp

\* HTTP 200 with envelope code -352 or 412
IsRiskControlRejection(r) ==
    (~r.exc) /\ r.status = 200 /\ r.code.v \in {-352, 412}

\* A transport exception or an HTTP status other than 200, 412 and 429
IsGenericFailure(r) ==
    r.exc \/ r.status \notin {200, 412, 429}

\* C32: in a transport call every delay slept after a risk-control rejection
\* (envelope code -352 or 412) at attempt a lies in
\* [1.5 * base * 2^a, 1.95 * base * 2^a] and every delay slept after a generic
\* failure lies in [base * 2^a, 1.3 * base * 2^a], for every retry of the
\* call, the last one included.
C32_RiskControlDelayIsLonger ==
    (cfg.enabled /\ op \in TransportOps) =>
        \A i \in SleepEvents(log) :
            LET a == log[i].n
                base == base_backoff_ms * (2 ^ a)
                r == AnswerBefore(log, i)
            IN  /\ IsRiskControlRejection(r) =>
                    \A d \in SleptDelays(log[i]) :
                        (3 * base) \div 2 <= d /\ d <= (195 * base) \div 100
                /\ IsGenericFailure(r) =>
                    \A d \in SleptDelays(log[i]) :
                        base <= d /\ d <= (13 * base) \div 10

----------------------------------------------------------------------------
\* C33: with anti-throttling enabled, a _make_request call that has ended
\* either returned a response, and then the response is HTTP 200 with
\* envelope code 0 or 22013 and is the answer to the last request issued,
\* or raised, and then no request of the call was answered with one of these
\* two codes: the caller never receives a response that carries a
\* risk-control code or another error code.
C33_OnlySuccessIsReturned ==
    (cfg.enabled /\ op \in TransportOps /\ pc \in {"mr_done", "done"}) =>
        \/ /\ mrResult = "returned"
           /\ mrResp \in {Resp(200, Code(0)), Resp(200, Code(22013))}
           /\ \A i \in HttpEvents(log) :
                  (\A j \in HttpEvents(log) : j <= i) <=> log[i].resp = mrResp
        \/ /\ mrResult = "raised"
           /\ mrResp = NoResp
           /\ \A i \in HttpEvents(log) :
                  log[i].resp \notin {Resp(200, Code(0)), Resp(200, Code(22013))}

\* A call answered -352 and then 22013 has returned the second response
C33_Witness ==
    /\ cfg.enabled /\ op = "get_following_list" /\ pc = "mr_done"
    /\ mrResult = "returned"
    /\ mrResp = Resp(200, Code(22013))
    /\ \E i \in HttpEvents(log) : log[i].resp = Resp(200, Code(-352))

----------------------------------------------------------------------------
(* BilibiliAPI.get_all_following and _get_all_following_legacy, request by *)
(* request, and what fetch_thread does with the list they return           *)

\* The remote relation holds up to MaxRemote users
MaxRemote == 4
\* config.json's settings.batch_size ranges over 1..MaxBatchSize
MaxBatchSize == 2
\* The cap of `ps = min(batch_size, 50)`
PageSizeCap == 50

\* A record of data['list']; mtime 0 stands for a missing or zero 'mtime'
Followed(n, mtime) ==
    [uid |-> <<>>, mid |-> Mid(n), uname |-> <<"a">>, sign |-> <<>>, mtime |-> mtime]

\* The relation the remote holds when it has n users, newest first
RemoteRelation(n) == [i \in 1..n |-> Followed(i, (i % 2) * (i + 4))]

\* The loop over a page's users: 'mtime_str' is set to the formatted time, or
\* to '未知' when 'mtime' is missing or zero
WithMtimeStr(user) ==
    [f \in DOMAIN user \cup {"mtime_str"} |->
        IF f # "mtime_str" THEN user[f]
        ELSE IF user.mtime # 0 THEN Str(user.mtime) ELSE <<"?">>]

\* ps as get_all_following and _get_all_following_legacy compute it
PageSize(enabled, batch_size) ==
    IF enabled THEN Min(batch_size, PageSizeCap) ELSE batch_size

\* What the remote answers to get_following_list(pn, ps)
RemotePage(remote, pn, ps) == PySlice(remote, (pn - 1) * ps, pn * ps)

\* An answer of get_following_list: data['list'], or an exception
Answer(raised, list) == [raised |-> raised, list |-> list]

StopsOnlyOnEmptyPage(page, ps) == page = <<>>

\* `if not following_list: break` and `if len(following_list) < ps: break`
StopsAfter(page, ps) == page = <<>> \/ Len(page) < ps

\* fetch_thread calls self.api.get_all_following() (line 1181); the relation
\* the remote holds is whatever it is at that time
GetAllFollowingCall ==
    /\ ft.pc = "idle"
    /\ ga.pc \in {"idle", "handed_over"}
    /\ ga.calls < MaxFetches
    /\ \E n \in 0..MaxRemote :
        ga' = [ga EXCEPT !.pc = "request", !.calls = @ + 1,
                         !.remote = RemoteRelation(n),
                         !.pn = 1, !.all_following = <<>>,
                         !.requested = <<>>, !.answers = <<>>,
                         !.before = [mem |-> ft.mem, file |-> fs.file]]
    /\ UNCHANGED notPage

\* One iteration of `while True`: get_following_list(pn, ps) answers a page or
\* raises.  With anti-throttling enabled the exception is logged and ends the
\* loop (lines 324-326), the legacy loop lets it propagate.
GetFollowingPage ==
    /\ ga.pc = "request"
    /\ \E raised \in BOOLEAN :
        LET page == RemotePage(ga.remote, ga.pn, ga.ps)
            kept == IF ga.enabled THEN [i \in DOMAIN page |-> WithMtimeStr(page[i])]
                    ELSE page
            asked == [ga EXCEPT !.requested = Append(@, ga.pn),
                                !.answers = Append(@, IF raised THEN Answer(TRUE, <<>>)
                                                      ELSE Answer(FALSE, page))]
        IN  ga' = IF raised
                  THEN [asked EXCEPT !.pc = IF ga.enabled THEN "returned" ELSE "raised"]
                  ELSE IF page = <<>>
                  THEN [asked EXCEPT !.pc = "returned"]
                  ELSE [asked EXCEPT !.all_following = @ \o kept,
                                     !.pc = IF StopsAfter(page, ga.ps)
                                            THEN "returned" ELSE "request",
                                     !.pn = IF StopsAfter(page, ga.ps) THEN @ ELSE @ + 1]
    /\ UNCHANGED notPage

\* fetch_thread, `if not following_list:` (lines 1183-1186): fetch_completed is
\* scheduled and the thread returns through its finally clause
FetchNothing ==
    /\ ga.pc = "returned"
    /\ ga.all_following = <<>>
    /\ ga' = [ga EXCEPT !.pc = "idle"]
    /\ UNCHANGED notPage

\* fetch_thread, `except Exception` (lines 1205-1209): fetch_failed is
\* scheduled, 'data_error' notified
FetchRaised ==
    /\ ga.pc = "raised"
    /\ ga' = [ga EXCEPT !.pc = "idle"]
    /\ UNCHANGED notPage

\* fetch_thread, line 1188: the list that came back is processed, whatever
\* get_all_following went through to build it
FetchAllProcess ==
    /\ ga.pc = "returned"
    /\ ga.all_following # <<>>
    /\ ft.pc = "idle"
    /\ ft' = [ft EXCEPT !.pc = "save", !.fetches = @ + 1,
                        !.following_list = ga.all_following,
                        !.built_at = clock,
                        !.before = ft.mem,
                        !.outcome = "none",
                        !.events = Deliver(<<>>, "data_loading")]
    /\ ga' = [ga EXCEPT !.pc = "handed_over"]
    /\ UNCHANGED <<retryVars, apiVars, govVars, batchVars, guiVars, processVars,
                   storeVars, searchVars>>

InitFetchAll ==
    /\ IdleRetry
    /\ IdleApi
    /\ IdleGov
    /\ IdleBatch
    /\ IdleGui
    /\ IdleProcess
    /\ IdleSearch
    /\ IdleStore
    /\ IdleFetch
    /\ \E enabled \in BOOLEAN, batch_size \in 1..MaxBatchSize :
        ga = [IdleCall EXCEPT !.enabled = enabled,
                              !.ps = PageSize(enabled, batch_size)]

NextFetchAll ==
    \/ GetAllFollowingCall
    \/ GetFollowingPage
    \/ FetchNothing
    \/ FetchRaised
    \/ FetchAllProcess
    \/ FetchSave
    \/ InstallProcessedData
    \/ InstallRawData
    \/ InstallLastUpdate
    \/ InstallUpdateCount
    \/ FetchSaveFailed
    \/ FetchEnd

SpecFetchAll == InitFetchAll /\ [][NextFetchAll]_vars

\* The pages of a call's answers, and the answers that are empty or short pages
PagesOf(answers) == [i \in DOMAIN answers |-> answers[i].list]
RECURSIVE Concat(_)
Concat(pages) == IF pages = <<>> THEN <<>> ELSE Head(pages) \o Concat(Tail(pages))
Undecorated(users) ==
    [i \in DOMAIN users |-> [f \in DOMAIN users[i] \ {"mtime_str"} |-> users[i][f]]]
EndsPaging(answer, ps) == answer.raised \/ Len(answer.list) < ps

\* C39: get_all_following requests pages 1, 2, 3, ... in increasing order,
\* each once; no request follows a page that is empty or shorter than the
\* page size, and a call that has returned stopped at such a page (or at a
\* request that failed); the list it returns is the concatenation of the
\* pages it was answered, in order; and it issues no more than
\* Len(remote) \div ps + 1 requests, so it terminates for every finite relation.
C39_PagesInOrderUntilShortPage ==
    /\ ga.requested = [i \in 1..Len(ga.requested) |-> i]
    /\ Len(ga.answers) = Len(ga.requested)
    /\ \A i \in 1..(Len(ga.answers) - 1) : ~EndsPaging(ga.answers[i], ga.ps)
    /\ Len(ga.requested) <= Len(ga.remote) \div ga.ps + 1
    /\ ga.pc \in {"returned", "handed_over"} =>
        /\ ga.answers # <<>>
        /\ EndsPaging(ga.answers[Len(ga.answers)], ga.ps)
        /\ Undecorated(ga.all_following) = Concat(PagesOf(ga.answers))

\* A call over four users with page size 2 has returned after the full pages
\* 1 and 2 and the empty page 3
C39_Witness ==
    /\ ga.pc = "returned"
    /\ ga.ps = 2
    /\ Len(ga.remote) = 4
    /\ ga.requested = <<1, 2, 3>>
    /\ Len(ga.all_following) = 4
    /\ ga.answers[3] = Answer(FALSE, <<>>)

\* Some page request of the call failed after at least one page was fetched
PartiallyFetched ==
    /\ ga.all_following # <<>>
    /\ \E i \in DOMAIN ga.answers : ga.answers[i].raised

\* C34: a fetch-all in which a page request failed terminally after at least
\* one page was fetched leaves the snapshot as it was before the fetch, in
\* memory (processed_data, raw_data, last_update, update_count) and on disk
\* (the data file): the partial list never replaces it.
C34_PartialFetchKeepsSnapshot ==
    PartiallyFetched =>
        /\ ft.mem = ga.before.mem
        /\ fs.file = ga.before.file

----------------------------------------------------------------------------
\* The entities and the count a JSON value of the Store describes
Described(json) ==
    IF json.kind = "snapshot"
    THEN [entities |-> Range(json.val.users), total_count |-> json.val.total_count]
    ELSE [entities |-> {}, total_count |-> 0]

\* C35: after every Store operation that has persisted a snapshot
\* (save_following_list after a batch unfollow, clear_data), the snapshot in
\* memory (processed_data: its entities and its total_count) describes the
\* same entity set as the data file.
C35_MemoryMatchesPersistedFile ==
    (dm.last \in {"save", "clear"}) =>
        Described(dm.processed_data) = Described(fs.file)

----------------------------------------------------------------------------
\* One batch unfollow has ended with its callbacks run, and it removed some
\* but not all of the users the list held
PartlyUnfollowed ==
    /\ Len(wk) = 1
    /\ wk[1].kind = "unfollow"
    /\ wk[1].pc = "done"
    /\ afterQ = <<>>
    /\ wk[1].removed # {}
    /\ wk[1].before \ Users(wk[1].removed) # {}

\* C36: after a batch unfollow that removed some but not all of the listed
\* users, self.following_list, which is the data every later search is run
\* over, is the remaining entity set: it holds no user whose unfollow succeeded.
C36_SearchDataIsRemainingSet ==
    PartlyUnfollowed =>
        /\ following_list = wk[1].before \ Users(wk[1].removed)
        /\ following_list \cap Users(wk[1].removed) = {}

----------------------------------------------------------------------------
(* SpecFetchLive: fetch_thread under fair scheduling.  Every started thread *)
(* is given processor time until it ends, the requests of get_all_following *)
(* are answered or fail, and the Tk main loop keeps running the             *)
(* root.after(0, ...) callbacks.                                            *)

NextFetchLive ==
    \/ ClickFetch
    \/ Logout
    \/ RunAfter
    \/ \E w \in 1..MaxWorkers : FetchCheck(w)
    \/ \E w \in 1..MaxWorkers : FetchSetLoading(w)
    \/ \E w \in 1..MaxWorkers : FetchBody(w)
    \/ \E w \in 1..MaxWorkers : FetchPage(w)
    \/ \E w \in 1..MaxWorkers : FetchResult(w)
    \/ \E w \in 1..MaxWorkers : FetchExcept(w)
    \/ \E w \in 1..MaxWorkers : FetchFinally(w)

FairFetch ==
    /\ WF_vars(RunAfter)
    /\ \A w \in 1..MaxWorkers :
        /\ WF_vars(FetchCheck(w))
        /\ WF_vars(FetchSetLoading(w))
        /\ WF_vars(FetchBody(w))
        /\ WF_vars(FetchPage(w) \/ FetchExcept(w))
        /\ WF_vars(FetchResult(w) \/ FetchExcept(w))
        /\ WF_vars(FetchFinally(w))

SpecFetchLive == InitGui /\ [][NextFetchLive]_vars /\ FairFetch

\* fetch_success, fetch_failed and fetch_completed each set the button to "normal"
EnableCallbacks == {"fetch_success", "fetch_failed", "fetch_completed"}

\* Thread w is a fetch_thread that has passed the busy check
PassedBusyCheck(w) ==
    /\ w \in 1..Len(wk)
    /\ wk[w].kind = "fetch"
    /\ wk[w].pc \in {"set_loading", "body", "fetching", "fetched", "finally"}

\* C37: every fetch_thread that passes the busy check eventually ends; on
\* every path to its finally clause (no API object, empty list, save failure,
\* exception, success) it has scheduled a callback that re-enables the fetch
\* button, and when it ends the loading flag is false; the flag never stays
\* true for ever.
C37_FetchWorkerEndsAndReenables ==
    /\ \A w \in 1..MaxWorkers :
          PassedBusyCheck(w) ~> (w \in 1..Len(wk) /\ wk[w].pc = "done")
    /\ loading ~> ~loading
    /\ [][\A w \in 1..MaxWorkers :
            /\ (PassedBusyCheck(w) /\ wk[w].pc # "finally" /\ wk'[w].pc = "finally") =>
                   \E i \in (Len(afterQ) + 1)..Len(afterQ') :
                       afterQ'[i].cb \in EnableCallbacks
            /\ (PassedBusyCheck(w) /\ wk'[w].pc = "done") => ~loading']_vars

\* A fetch_thread that found no API object has ended and its fetch_failed
\* callback has run
C37_Witness ==
    /\ Len(wk) >= 1
    /\ wk[1].kind = "fetch" /\ wk[1].pc = "done"
    /\ ~api
    /\ ~loading
    /\ afterQ = <<>>
    /\ btn.fetch = "normal"

----------------------------------------------------------------------------
\* The requests of the log that were answered with envelope code 0 or 22015
AnsweredUnfollowed(l) ==
    {i \in HttpEvents(l) : (~l[i].resp.exc) /\ l[i].resp.code.v \in {0, 22015}}

----------------------------------------------------------------------------
(* SpecTestMode: a caller that either calls follow_user / unfollow_user or *)
(* runs batch_unfollow_all, with settings.test_mode set or not             *)

NoTally == [success |-> 0, failed |-> 0]

NextTestMode ==
    \/ bt.pc = "start" /\ FollowUser
    \/ bt.pc = "start" /\ UnfollowFirst
    \/ bt.pc = "start" /\ UnfollowRetry
    \/ bt.pc = "start" /\ UnfollowExhausted
    \/ bt.pc = "start" /\ ReturnToCaller
    \/ pc = "idle" /\ tally = NoTally /\ BatchFetch
    \/ BatchConfirm
    \/ BatchItem
    \/ BatchFinish

SpecTestMode == InitBatch /\ [][NextTestMode]_vars

\* How many users the loop of batch_unfollow_all has called unfollow_user for
Processed(attempted) == Cardinality({i \in DOMAIN attempted : attempted[i] > 0})

\* C40: with test_mode set, follow_user and unfollow_user issue no HTTP
\* request and return True, and batch_unfollow_all works on
\* total = min(number followed, max_test_operations) users: it calls
\* unfollow_user for at most max_test_operations of them.
C40_TestModeIssuesNothing ==
    cfg.test_mode =>
        /\ (op \in {"follow_user", "unfollow_user"} /\ pc = "done") =>
              /\ HttpEvents(log) = {}
              /\ opResult = "true"
        /\ pc # "unf_retry"
        /\ bt.pc \in {"confirm", "loop", "done"} =>
              /\ bt.total = IF bt.original_count < bt.max_test_ops
                            THEN bt.original_count ELSE bt.max_test_ops
              /\ Len(bt.list) = bt.total
              /\ Processed(bt.attempted) <= bt.max_test_ops

\* In test mode with max_test_operations = 2, a batch over three followed
\* users has ended after two unfollow_user calls that returned True
C40_Witness ==
    /\ cfg.test_mode
    /\ bt.pc = "done" /\ bt.result = "tally"
    /\ bt.max_test_ops = 2
    /\ bt.original_count = 3
    /\ bt.total = 2
    /\ bt.success = 2

====
